---------------------------- MODULE Spec2Model ----------------------------
(***************************************************************************)
(* Banking synthetic data generator (sv07071974/synthetic_data).           *)
(*                                                                         *)
(* Conventions of the model                                                *)
(*   money   integers, in cents (every stored amount is round(x, 2));      *)
(*           the float nan is the value NaN, and every arithmetic          *)
(*           operation on money goes through the F* operators, which       *)
(*           propagate it as Python's float arithmetic does.  Binary       *)
(*           representation error of floats (< 1e-9) is not modelled.     *)
(*   rates   integers, in 1/10000 (interest_rate is round(x, 4))           *)
(*   dates   "%Y-%m-%d" strings are records [y, m, d]; datetimes are day   *)
(*           numbers; Strptime/Strftime convert as the calendar does       *)
(*   random  a draw is a choice from the ends of its range (and, where a   *)
(*           claim needs it, a value in between)                           *)
(***************************************************************************)
EXTENDS Integers, Sequences, FiniteSets, TLC

VARIABLES
    \* the clock
    today,              \* datetime.datetime.now(), as a day number
    \* the tables the stages hand on (None until the stage has returned)
    customer_data,
    kyc_data,
    account_data,
    transaction_data,
    transfer_data,
    \* CustomerGenerator.customer_ids, AccountGenerator.account_ids and the calls
    \* of generate_customer_id / generate_account_id
    customer_ids,
    account_ids,
    id_call,            \* "none" | "customer" | "account": the call in its loop
    returned_customer_ids,  \* what the calls of generate_customer_id returned
    returned_account_ids,   \* what the calls of generate_account_id returned
    \* CustomerGenerator.generate_customers
    cust_pc,            \* "idle" | "loop" | "done"
    num_customers,      \* count
    customers,          \* the list of customer dicts
    \* KYCGenerator.generate_kyc_data
    kyc_pc,             \* "idle" | "rows" | "done"
    kyc_row,            \* rows of customer_data the for-loop has been over
    kyc_records,        \* the list of KYC dicts
    \* AccountGenerator.generate_accounts
    acct_pc,            \* "idle" | "rows" | "loop" | "done" | "ValueError"
    avg_accounts_per_customer,  \* the parameter, in tenths
    acct_row,           \* rows of customer_data the outer for-loop has been over
    num_accounts,       \* the clamped draw for the current customer
    acct_j,             \* accounts made for the current customer
    accounts,           \* the list of account dicts
    \* TransactionGenerator.generate_transactions
    tx_pc,              \* "idle" | "rows" | "loop" | "done"
    max_days_back,      \* the parameter
    tx_row,             \* rows of account_data the outer for-loop has been over
    num_transactions,   \* the Poisson draw for the current account
    tx_i,               \* the inner loop's i
    running_balance,    \* the accumulator of the current account
    transactions,       \* the list of transaction dicts
    \* FundTransferGenerator.generate_transfers
    xfer_pc,            \* "idle" | "start" | "loop" | "done" | "KeyError" | "ValueError"
    same_customer_branch, \* whether random.random() < 0.7 held in the last iteration
    num_transfers,      \* count
    transfers,          \* the list of transfer dicts
    \* generate_data / run_headless
    pc,                 \* the stage the pipeline is at
    \* app_state, beside its five tables, and the generate_data calls made
    run,                \* how many generate_data calls have been started
    assigned_in,        \* for each table of app_state, the call that assigned it (0: none)
    generation_stats,   \* app_state.generation_stats: a dict from stage to row count
    \* save_data_to_disk
    save_pc,            \* "idle" | "writing" | "done"
    files_written,      \* how many of the ten to_csv / to_json calls have returned
    save_result,        \* what save_data_to_disk returned: "none" | TRUE | FALSE
    \* processes and the runs they make, as far as the seeding is concerned
    process,            \* how many times the module has been imported
    rng_state,          \* draws made from random / np.random since random.seed(42)
    run_pc,             \* "idle" | "rows"
    run_size,           \* the number of rows the run in progress was asked for
    run_rows,           \* the rows of the run in progress
    finished_runs       \* the runs completed so far, each with its process and rows

envVars == <<today>>

tableVars == <<customer_data, kyc_data, account_data, transaction_data, transfer_data>>

idVars == <<customer_ids, account_ids, id_call, returned_customer_ids, returned_account_ids>>

custVars == <<cust_pc, num_customers, customers>>

kycVars == <<kyc_pc, kyc_row, kyc_records>>

acctVars == <<acct_pc, avg_accounts_per_customer, acct_row, num_accounts, acct_j, accounts>>

ledgerVars == <<tx_pc, max_days_back, tx_row, num_transactions, tx_i, running_balance,
                transactions>>

xferVars == <<xfer_pc, same_customer_branch, num_transfers, transfers>>

pipeVars == <<pc>>

saveVars == <<save_pc, files_written, save_result>>

appVars == <<run, assigned_in, generation_stats>>

runVars == <<process, rng_state, run_pc, run_size, run_rows, finished_runs>>

vars == <<envVars, tableVars, idVars, custVars, kycVars, acctVars, ledgerVars,
          xferVars, pipeVars, saveVars, runVars, appVars>>

\* what each component leaves alone, the tables apart
notIds == <<envVars, custVars, kycVars, acctVars, ledgerVars, xferVars, pipeVars,
            saveVars, runVars, appVars>>

notCustomers == <<envVars, kycVars, acctVars, ledgerVars, xferVars, pipeVars,
                  saveVars, runVars, appVars>>

notKyc == <<envVars, idVars, custVars, acctVars, ledgerVars, xferVars, pipeVars,
            saveVars, runVars, appVars>>

notAccounts == <<envVars, custVars, kycVars, ledgerVars, xferVars, pipeVars,
                 saveVars, runVars, appVars>>

notLedger == <<envVars, idVars, custVars, kycVars, acctVars, xferVars, pipeVars,
               saveVars, runVars, appVars>>

notTransfers == <<envVars, idVars, custVars, kycVars, acctVars, ledgerVars, pipeVars,
                  saveVars, runVars, appVars>>

-----------------------------------------------------------------------------
(* Bounds of the model *)

\* most transaction records one run of generate_transactions produces
MaxTx == 3

\* largest value of np.random.poisson explored for the number of accounts
MaxPoisson == 3

\* most rows of a customer table
MaxCustomers == 2

\* largest count of transfers asked for
MaxTransfers == 2

-----------------------------------------------------------------------------
(* Numbers *)

\* float('nan'): chosen outside the range of every amount of the model
NaN == -2000000000

\* interest_rate = None (Investment accounts)
RateNone == -1

\* the cell of a None interest_rate in a float64 column: nan
RateNaN == -2

IsNaN(x) == x = NaN

Abs(x) == IF x < 0 THEN -x ELSE x

\* round(n / d) to the nearest integer, ties to even, as Python's round does
RoundHalfEven(n, d) ==
    LET a == Abs(n)
        q == a \div d
        r == a % d
        m == IF 2 * r < d THEN q
             ELSE IF 2 * r > d THEN q + 1
             ELSE IF q % 2 = 0 THEN q ELSE q + 1
    IN  IF n < 0 THEN -m ELSE m

FAdd(a, b) == IF IsNaN(a) \/ IsNaN(b) THEN NaN ELSE a + b

FNeg(a) == IF IsNaN(a) THEN NaN ELSE -a

FAbs(a) == IF IsNaN(a) THEN NaN ELSE Abs(a)

\* a < b on floats: False when either is nan
FLt(a, b) == ~IsNaN(a) /\ ~IsNaN(b) /\ a < b

Min(a, b) == IF b < a THEN b ELSE a

Max(a, b) == IF b > a THEN b ELSE a

-----------------------------------------------------------------------------
(* Dates *)

\* Python's None, where a table is expected
None == [none |-> TRUE]

NoDate == [y |-> 0, m |-> 0, d |-> 0]

\* datetime.strptime(s, "%Y-%m-%d"): the day number of a date (days since 1970-01-01)
Strptime(s) ==
    LET y   == IF s.m <= 2 THEN s.y - 1 ELSE s.y
        era == y \div 400
        yoe == y - era * 400
        mp  == IF s.m > 2 THEN s.m - 3 ELSE s.m + 9
        doy == (153 * mp + 2) \div 5 + s.d - 1
        doe == yoe * 365 + yoe \div 4 - yoe \div 100 + doy
    IN  era * 146097 + doe - 719468

\* dt.strftime("%Y-%m-%d"): the date of a day number
Strftime(n) ==
    LET z   == n + 719468
        era == z \div 146097
        doe == z - era * 146097
        yoe == (doe - doe \div 1460 + doe \div 36524 - doe \div 146096) \div 365
        doy == doe - (365 * yoe + yoe \div 4 - yoe \div 100)
        mp  == (5 * doy + 2) \div 153
        d   == doy - (153 * mp + 2) \div 5 + 1
        m   == IF mp < 10 THEN mp + 3 ELSE mp - 9
        y   == yoe + era * 400
    IN  [y |-> IF m <= 2 THEN y + 1 ELSE y, m |-> m, d |-> d]

\* s < t on "%Y-%m-%d" strings of four-digit years
DateLt(s, t) ==
    \/ s.y < t.y
    \/ s.y = t.y /\ s.m < t.m
    \/ s.y = t.y /\ s.m = t.m /\ s.d < t.d

-----------------------------------------------------------------------------
(* Identifiers *)

\* the decimal digits of n > 0, most significant first
RECURSIVE Digits(_)
Digits(n) == IF n < 10 THEN <<n>> ELSE Append(Digits(n \div 10), n % 10)

\* f"{prefix}{n}"
FormatId(prefix, n) == [prefix |-> prefix, digits |-> Digits(n)]

-----------------------------------------------------------------------------
(* Tables *)

\* pd.DataFrame(rows) of a list of dicts.  An empty list gives a frame with no
\* columns.  A column that holds floats and None is float64, its None cells nan
\* (interest_rate); a column of strings and None keeps None (closing_date).
DataFrame(rows) ==
    [columns |-> IF rows = <<>> THEN {} ELSE DOMAIN rows[1],
     rows    |-> [i \in DOMAIN rows |->
                    IF /\ "interest_rate" \in DOMAIN rows[i]
                       /\ rows[i].interest_rate = RateNone
                       /\ \E j \in DOMAIN rows : rows[j].interest_rate # RateNone
                    THEN [rows[i] EXCEPT !.interest_rate = RateNaN]
                    ELSE rows[i]]]

\* len(df)
Rows(df) == Len(df.rows)

\* a variant that yields the first row at every position
RowAtFirst(df, i) == df.rows[1]

\* the row df.iterrows() yields at position i
RowAt(df, i) == df.rows[i]

-----------------------------------------------------------------------------
(* AccountGenerator: one account of one customer *)

account_types == {"Savings", "Checking", "Money Market", "Certificate of Deposit", "Investment"}

status_options == {"Active", "Dormant", "Closed", "Frozen", "Pending"}

\* min_balance of the account type, in cents
MinBalance(account_type) ==
    CASE account_type = "Savings" -> 50000
      [] account_type = "Checking" -> 10000
      [] account_type = "Money Market" -> 100000
      [] account_type = "Certificate of Deposit" -> 500000
      [] OTHER -> 1000000

\* max_balance of the account type: a share of the customer's income, in tenths of a cent
MaxBalance(account_type, annual_income) ==
    CASE account_type = "Savings" -> annual_income * 2
      [] account_type = "Checking" -> annual_income * 1
      [] account_type = "Money Market" -> annual_income * 3
      [] account_type = "Certificate of Deposit" -> annual_income * 4
      [] OTHER -> annual_income * 5

\* round(random.uniform(lo, hi), 2), for the draws at the ends of the range named
\* by ends ("lo", "hi"); lo in cents, hi in tenths of a cent; nan when hi is
UniformCents(lo, hi, ends) ==
    IF IsNaN(hi) THEN {NaN}
    ELSE {IF e = "lo" THEN lo ELSE RoundHalfEven(hi, 10) : e \in ends}

\* both ends of a range
BothEnds == {"lo", "hi"}

\* the interest rates round(random.uniform(a, b), 4) can give, None for Investment
InterestRates(account_type) ==
    CASE account_type = "Savings" -> {100, 300}
      [] account_type = "Checking" -> {0, 100}
      [] account_type = "Money Market" -> {200, 400}
      [] account_type = "Certificate of Deposit" -> {300, 600}
      [] OTHER -> {RateNone}

\* opening_date: registration date plus the drawn days
OpeningDate(customer, days_after_registration) ==
    Strftime(Strptime(customer.registration_date) + days_after_registration)

\* closing_date: None unless the account is Closed
ClosingDate(status, opening_date, closing_days) ==
    IF status = "Closed"
    THEN Strftime(Strptime(opening_date) + closing_days)
    ELSE NoDate

\* a variant that keeps the balance of a Closed account
CurrentBalanceKept(status, opening_balance) == opening_balance

\* current_balance of a new account
CurrentBalance(status, opening_balance) ==
    IF status # "Closed" THEN opening_balance ELSE 0

\* the account dict (account_number, routing_number, currency, available_balance,
\* overdraft_limit and last_activity_date are not read by any later stage's logic
\* and are left out)
AccountRow(customer, account_type, opening_balance, days_after_registration, interest_rate, status, closing_days, account_id) ==
    LET opening_date == OpeningDate(customer, days_after_registration)
    IN  [account_id      |-> account_id,
         customer_id     |-> customer.customer_id,
         account_type    |-> account_type,
         opening_balance |-> opening_balance,
         current_balance |-> CurrentBalance(status, opening_balance),
         interest_rate   |-> interest_rate,
         opening_date    |-> opening_date,
         closing_date    |-> ClosingDate(status, opening_date, closing_days),
         status          |-> status]

-----------------------------------------------------------------------------
(* TransactionGenerator.generate_transactions *)

transaction_types == {"Deposit", "Withdrawal", "Transfer", "Payment", "Fee", "Interest"}

statuses == {"Completed", "Pending", "Failed", "Reversed"}

\* avg_transactions_per_account, the default of generate_transaction_data
AvgTransactions == 20

\* max_days_back, the default of generate_transactions
DefaultMaxDaysBack == 90

\* avg_transactions of an account that is not Closed
AvgOf(account) ==
    IF account.status = "Dormant" THEN 2
    ELSE IF account.status = "Frozen" THEN 5
    ELSE AvgTransactions

\* np.random.poisson(lam), at most cap
Poisson(lam, cap) == IF lam = 0 THEN {0} ELSE 0..cap

\* max_amount = min(running_balance * share, limit), raised to min_amount when below
\* it; share in tenths, limit and min_amount in cents, the result in tenths of a cent
MaxAmount(rb, share, limit, min_amount) ==
    LET max_amount == IF IsNaN(rb) THEN NaN ELSE Min(rb * share, limit * 10)
    IN  IF FLt(max_amount, min_amount * 10) THEN min_amount * 10 ELSE max_amount

\* the Interest amount: round(running_balance * rate / 12, 2) when the rate is
\* truthy (nan is), round(running_balance * 0.0025, 2) otherwise
InterestAmount(rb, interest_rate) ==
    IF interest_rate # RateNone /\ interest_rate # 0
    THEN IF IsNaN(rb) \/ interest_rate = RateNaN THEN NaN
         ELSE RoundHalfEven(rb * interest_rate, 120000)
    ELSE IF IsNaN(rb) THEN NaN ELSE RoundHalfEven(rb * 25, 10000)

\* the (amount, amount_sign) pairs the type's branch can give
AmountDraws(transaction_type, rb, interest_rate, ends) ==
    CASE transaction_type = "Deposit" ->
           {[amount |-> a, amount_sign |-> 1] : a \in UniformCents(1000, 5000000, ends)}
      [] transaction_type = "Withdrawal" ->
           {[amount |-> a, amount_sign |-> -1] :
              a \in UniformCents(1000, MaxAmount(rb, 5, 100000, 1000), ends)}
      [] transaction_type = "Transfer" ->
           {[amount |-> a, amount_sign |-> sg] :
              a \in UniformCents(5000, MaxAmount(rb, 7, 300000, 5000), ends), sg \in {-1, 1}}
      [] transaction_type = "Payment" ->
           {[amount |-> a, amount_sign |-> -1] :
              a \in UniformCents(1000, MaxAmount(rb, 4, 200000, 1000), ends)}
      [] transaction_type = "Fee" ->
           {[amount |-> a, amount_sign |-> -1] : a \in UniformCents(100, 50000, ends)}
      [] OTHER ->
           {[amount |-> InterestAmount(rb, interest_rate), amount_sign |-> 1]}

\* signed_amount = amount * amount_sign
SignedAmount(amount, amount_sign) ==
    IF amount_sign > 0 THEN amount ELSE FNeg(amount)

\* new_balance: running_balance + signed_amount, running_balance when Failed
NewBalance(rb, amount, amount_sign, status) ==
    IF status = "Failed" THEN rb ELSE FAdd(rb, SignedAmount(amount, amount_sign))

\* the running_balance field of the record
StoredBalance(rb, new_balance, status) ==
    IF status = "Completed" THEN new_balance ELSE rb

\* a variant that takes "not Failed" for "Completed"
NextRunningBalanceUnlessFailed(rb, new_balance, status) ==
    IF status # "Failed" THEN new_balance ELSE rb

\* running_balance after the iteration
NextRunningBalance(rb, new_balance, status) ==
    IF status = "Completed" THEN new_balance ELSE rb

\* the transaction dict (transaction_id, description, category, channel,
\* reference_number and the counterparty fields are independent draws and are
\* left out)
TransactionRecord(account, transaction_date, transaction_type, amount, amount_sign, status, rb) ==
    [account_id       |-> account.account_id,
     transaction_date |-> transaction_date,
     transaction_type |-> transaction_type,
     amount           |-> FAbs(amount),
     direction        |-> IF amount_sign > 0 THEN "Credit" ELSE "Debit",
     running_balance  |-> StoredBalance(rb, NewBalance(rb, amount, amount_sign, status), status),
     status           |-> status]

\* days_since_opening = (today - opening_date).days
DaysSinceOpening(account) == today - Strptime(account.opening_date)

MaxDaysBackOnly(account) == max_days_back

\* max_days = min(days_since_opening, max_days_back)
MaxDays(account) == Min(DaysSinceOpening(account), max_days_back)

HasWindowUnlessFuture(account) == DaysSinceOpening(account) >= 0

\* neither continue of the iteration is taken
HasWindow(account) == DaysSinceOpening(account) > 0 /\ MaxDays(account) > 0

\* random.randint(0, max_days): pick 0 is its low end, any other pick its high end
DaysAgo(max_days, picks) == {IF p = 0 THEN 0 ELSE max_days : p \in picks}

\* the row the outer loop is at
CurrentAccount == account_data.rows[tx_row]

IsClosedNever(account) == FALSE

\* if account["status"] == "Closed"
IsClosed(account) == account.status = "Closed"

\* the outer loop meets a Closed account: continue
TxSkipClosed ==
    /\ tx_pc = "rows"
    /\ tx_row < Rows(account_data)
    /\ IsClosed(account_data.rows[tx_row + 1])
    /\ tx_row' = tx_row + 1
    /\ UNCHANGED <<max_days_back, tx_pc, num_transactions, tx_i, running_balance,
                   transactions>>
    /\ UNCHANGED <<tableVars, notLedger>>

\* the outer loop meets any other account: draw its count, start its accumulator
TxBeginAccount ==
    /\ tx_pc = "rows"
    /\ tx_row < Rows(account_data)
    /\ LET account == account_data.rows[tx_row + 1]
       IN  /\ ~IsClosed(account)
           /\ \E n \in Poisson(AvgOf(account), MaxTx - Len(transactions)) :
                  num_transactions' = n
           /\ running_balance' = account.opening_balance
    /\ tx_row' = tx_row + 1
    /\ tx_i' = 0
    /\ tx_pc' = "loop"
    /\ UNCHANGED <<max_days_back, transactions>>
    /\ UNCHANGED <<tableVars, notLedger>>

\* an iteration without a date window: continue
TxSkipIteration ==
    /\ tx_pc = "loop"
    /\ tx_i < num_transactions
    /\ ~HasWindow(CurrentAccount)
    /\ tx_i' = tx_i + 1
    /\ UNCHANGED <<max_days_back, tx_pc, tx_row, num_transactions, running_balance,
                   transactions>>
    /\ UNCHANGED <<tableVars, notLedger>>

\* an iteration that appends a record
TxGenerate(types, stats, picks, ends) ==
    /\ tx_pc = "loop"
    /\ tx_i < num_transactions
    /\ HasWindow(CurrentAccount)
    /\ \E days_ago \in DaysAgo(MaxDays(CurrentAccount), picks),
          transaction_type \in types, status \in stats :
         \E draw \in AmountDraws(transaction_type, running_balance,
                                 CurrentAccount.interest_rate, ends) :
            /\ transactions' = Append(transactions,
                   TransactionRecord(CurrentAccount, Strftime(today - days_ago),
                                     transaction_type, draw.amount, draw.amount_sign,
                                     status, running_balance))
            /\ running_balance' = NextRunningBalance(running_balance,
                   NewBalance(running_balance, draw.amount, draw.amount_sign, status),
                   status)
    /\ tx_i' = tx_i + 1
    /\ UNCHANGED <<max_days_back, tx_pc, tx_row, num_transactions>>
    /\ UNCHANGED <<tableVars, notLedger>>

\* the inner loop is over
TxEndAccount ==
    /\ tx_pc = "loop"
    /\ tx_i >= num_transactions
    /\ tx_pc' = "rows"
    /\ UNCHANGED <<max_days_back, tx_row, num_transactions, tx_i, running_balance,
                   transactions>>
    /\ UNCHANGED <<tableVars, notLedger>>

TxReturnWritingBack ==
    /\ tx_pc = "rows"
    /\ tx_row = Rows(account_data)
    /\ tx_pc' = "done"
    /\ transaction_data' = DataFrame(transactions)
    /\ account_data' =
           [account_data EXCEPT !.rows =
               [r \in DOMAIN account_data.rows |->
                   IF r = tx_row
                   THEN [account_data.rows[r] EXCEPT !.current_balance = running_balance]
                   ELSE account_data.rows[r]]]
    /\ UNCHANGED <<max_days_back, tx_row, num_transactions, tx_i, running_balance,
                   transactions>>
    /\ UNCHANGED <<customer_data, kyc_data, transfer_data, notLedger>>

\* return pd.DataFrame(transactions)
TxReturn ==
    /\ tx_pc = "rows"
    /\ tx_row = Rows(account_data)
    /\ tx_pc' = "done"
    /\ transaction_data' = DataFrame(transactions)
    /\ UNCHANGED <<max_days_back, tx_row, num_transactions, tx_i, running_balance,
                   transactions>>
    /\ UNCHANGED <<customer_data, kyc_data, account_data, transfer_data, notLedger>>

-----------------------------------------------------------------------------
(* The components before they are started *)

\* AppState(): no table yet
NoTables ==
    /\ customer_data = None
    /\ kyc_data = None
    /\ account_data = None
    /\ transaction_data = None
    /\ transfer_data = None

\* CustomerGenerator() and AccountGenerator(customer_data): empty sets of ids
IdsIdle ==
    /\ customer_ids = {}
    /\ account_ids = {}
    /\ id_call = "none"
    /\ returned_customer_ids = <<>>
    /\ returned_account_ids = <<>>

CustIdle ==
    /\ cust_pc = "idle"
    /\ num_customers = 0
    /\ customers = <<>>

KycIdle ==
    /\ kyc_pc = "idle"
    /\ kyc_row = 0
    /\ kyc_records = <<>>

AcctIdle ==
    /\ acct_pc = "idle"
    /\ avg_accounts_per_customer = 15
    /\ acct_row = 0
    /\ num_accounts = 0
    /\ acct_j = 0
    /\ accounts = <<>>

LedgerIdle ==
    /\ tx_pc = "idle"
    /\ max_days_back = DefaultMaxDaysBack
    /\ tx_row = 0
    /\ num_transactions = 0
    /\ tx_i = 0
    /\ running_balance = 0
    /\ transactions = <<>>

XferIdle ==
    /\ xfer_pc = "idle"
    /\ same_customer_branch = FALSE
    /\ num_transfers = 0
    /\ transfers = <<>>

\* the keys of the tables of app_state
table_names ==
    {"customer_data", "kyc_data", "account_data", "transaction_data", "transfer_data"}

\* AppState(): generation_stats = {} and no generate_data call made
AppIdle ==
    /\ run = 0
    /\ assigned_in = [name \in table_names |-> 0]
    /\ generation_stats = [key \in {} |-> 0]

SaveIdle ==
    /\ save_pc = "idle"
    /\ files_written = 0
    /\ save_result = "none"

\* the module has been imported once and no run has been made
RunsIdle ==
    /\ process = 1
    /\ rng_state = 0
    /\ run_pc = "idle"
    /\ run_size = 0
    /\ run_rows = <<>>
    /\ finished_runs = <<>>

-----------------------------------------------------------------------------
(* The ledger on its own: generate_transactions on a table of accounts *)

\* a customer row as far as AccountGenerator reads it
LedgerOwner(registration_date) ==
    [customer_id       |-> FormatId("CUST", 1000000),
     annual_income     |-> 3000000,
     registration_date |-> registration_date]

\* the clock and the account rows of the runs explored: accounts as
\* AccountGenerator builds them for a customer of income 30000
LedgerInputs ==
    LET late  == LedgerOwner([y |-> 2024, m |-> 12, d |-> 31])
        early == LedgerOwner([y |-> 2020, m |-> 1, d |-> 1])
        id(k) == FormatId("ACCT", 10000000 + k)
    IN  { [today |-> Strptime([y |-> 2025, m |-> 3, d |-> 25]),
           rows  |-> << AccountRow(early, "Checking", 10000, 0, 100, "Active", 0, id(1)) >>],
          [today |-> Strptime([y |-> 2025, m |-> 3, d |-> 25]),
           rows  |-> << AccountRow(early, "Savings", 50000, 30, 300, "Closed", 30, id(1)),
                        AccountRow(early, "Investment", 1000000, 0, RateNone, "Dormant", 0, id(2)) >>],
          [today |-> Strptime([y |-> 2025, m |-> 1, d |-> 15]),
           rows  |-> << AccountRow(late, "Investment", 1000000, 30, RateNone, "Frozen", 0, id(1)),
                        AccountRow(late, "Investment", 1500000, 0, RateNone, "Pending", 0, id(2)) >>] }

\* TransactionGenerator(account_data).generate_transactions() has been called
InitLedger ==
    /\ \E input \in LedgerInputs :
         /\ today = input.today
         /\ account_data = DataFrame(input.rows)
    /\ customer_data = None
    /\ kyc_data = None
    /\ transaction_data = None
    /\ transfer_data = None
    /\ IdsIdle /\ CustIdle /\ KycIdle /\ AcctIdle /\ XferIdle
    /\ pc = "idle"
    /\ SaveIdle /\ RunsIdle /\ AppIdle
    /\ max_days_back = DefaultMaxDaysBack
    /\ tx_pc = "rows"
    /\ tx_row = 0
    /\ num_transactions = 0
    /\ tx_i = 0
    /\ running_balance = 0
    /\ transactions = <<>>

NextLedger ==
    \/ TxSkipClosed
    \/ TxBeginAccount
    \/ TxSkipIteration
    \/ TxGenerate(transaction_types, statuses, {0}, {"hi"})
    \/ TxEndAccount
    \/ TxReturn

SpecLedger == InitLedger /\ [][NextLedger]_vars

\* the step appended a record
Appended == Len(transactions') = Len(transactions) + 1

\* the record the step appended
LastAppended == transactions'[Len(transactions')]

\* the opening balance of the account a record belongs to
OpeningBalanceOf(account_id) ==
    LET i == CHOOSE i \in DOMAIN account_data.rows :
                 account_data.rows[i].account_id = account_id
    IN  account_data.rows[i].opening_balance

\* the Completed records of the same account before record k
CompletedBefore(k) ==
    {j \in 1..(k - 1) : /\ transactions[j].account_id = transactions[k].account_id
                        /\ transactions[j].status = "Completed"}

\* the balance record k started from: that of the last Completed record of its
\* account before it, the opening balance when there is none
BalanceBefore(k) ==
    IF CompletedBefore(k) = {}
    THEN OpeningBalanceOf(transactions[k].account_id)
    ELSE LET j == CHOOSE j \in CompletedBefore(k) : \A h \in CompletedBefore(k) : h <= j
         IN  transactions[j].running_balance

\* C1: a Pending, Failed or Reversed transaction stores the accumulator as it was
\* before it and leaves the accumulator as it was; within one account the
\* accumulator changes only in a step that appends a Completed transaction
C1_NonCompletedLeavesAccumulator ==
    [][ /\ (Appended /\ LastAppended.status \in {"Pending", "Failed", "Reversed"})
            => /\ LastAppended.running_balance = running_balance
               /\ running_balance' = running_balance
        /\ (tx_row' = tx_row /\ tx_pc = "loop" /\ running_balance' # running_balance)
            => (Appended /\ LastAppended.status = "Completed") ]_vars

\* one account, three records, one of each status that is not Completed, and the
\* accumulator still the opening balance
C1_Witness ==
    /\ Len(transactions) = 3
    /\ transactions[1].status = "Pending"
    /\ transactions[2].status = "Failed"
    /\ transactions[3].status = "Reversed"
    /\ transactions[1].transaction_type = "Deposit"
    /\ transactions[3].account_id = transactions[1].account_id
    /\ tx_pc = "loop"
    /\ running_balance = OpeningBalanceOf(transactions[1].account_id)

\* C2: a Completed transaction of any type stores the balance it started from plus
\* its stored amount when its direction is Credit, minus it when Debit
C2_CompletedBalanceFollowsDirection ==
    \A k \in DOMAIN transactions :
        transactions[k].status = "Completed" =>
            transactions[k].running_balance =
                IF transactions[k].direction = "Credit"
                THEN FAdd(BalanceBefore(k), transactions[k].amount)
                ELSE FAdd(BalanceBefore(k), FNeg(transactions[k].amount))

-----------------------------------------------------------------------------
(* generate_customer_id and generate_account_id *)

\* values of random.randint explored for an identifier: the low end, those next to
\* it, and the high end
IdSamples == 3

\* random.randint(lo, hi)
IdDraws(lo, hi) == {lo + i : i \in 0..(IdSamples - 2)} \cup {hi}

\* random.randint(1000000, 9999999)
CustomerIdDraws == IdDraws(1000000, 9999999)

\* random.randint(10000000, 99999999)
AccountIdDraws == IdDraws(10000000, 99999999)

\* a variant that takes every candidate
IsFreshAlways(id, used) == TRUE

\* the candidate is not in the set of ids given out
IsFresh(id, used) == id \notin used

\* generate_customer_id() is called
CustomerIdCall ==
    /\ id_call = "none"
    /\ id_call' = "customer"
    /\ UNCHANGED <<customer_ids, account_ids, returned_customer_ids, returned_account_ids>>
    /\ UNCHANGED <<tableVars, notIds>>

\* one pass of the while loop of generate_customer_id: a candidate that is fresh is
\* recorded and returned, any other leaves the loop where it is
CustomerIdIteration ==
    /\ id_call = "customer"
    /\ \E n \in CustomerIdDraws :
         LET customer_id == FormatId("CUST", n)
         IN  IF IsFresh(customer_id, customer_ids)
             THEN /\ customer_ids' = customer_ids \cup {customer_id}
                  /\ returned_customer_ids' = Append(returned_customer_ids, customer_id)
                  /\ id_call' = "none"
             ELSE UNCHANGED <<customer_ids, returned_customer_ids, id_call>>
    /\ UNCHANGED <<account_ids, returned_account_ids>>
    /\ UNCHANGED <<tableVars, notIds>>

\* generate_account_id() is called
AccountIdCall ==
    /\ id_call = "none"
    /\ id_call' = "account"
    /\ UNCHANGED <<customer_ids, account_ids, returned_customer_ids, returned_account_ids>>
    /\ UNCHANGED <<tableVars, notIds>>

\* one pass of the while loop of generate_account_id
AccountIdIteration ==
    /\ id_call = "account"
    /\ \E n \in AccountIdDraws :
         LET account_id == FormatId("ACCT", n)
         IN  IF IsFresh(account_id, account_ids)
             THEN /\ account_ids' = account_ids \cup {account_id}
                  /\ returned_account_ids' = Append(returned_account_ids, account_id)
                  /\ id_call' = "none"
             ELSE UNCHANGED <<account_ids, returned_account_ids, id_call>>
    /\ UNCHANGED <<customer_ids, returned_customer_ids>>
    /\ UNCHANGED <<tableVars, notIds>>

\* one CustomerGenerator and one AccountGenerator, just constructed
InitIds ==
    /\ today = Strptime([y |-> 2025, m |-> 3, d |-> 25])
    /\ NoTables
    /\ IdsIdle /\ CustIdle /\ KycIdle /\ AcctIdle /\ LedgerIdle /\ XferIdle
    /\ pc = "idle"
    /\ SaveIdle /\ RunsIdle /\ AppIdle

NextIds ==
    \/ CustomerIdCall
    \/ CustomerIdIteration
    \/ AccountIdCall
    \/ AccountIdIteration

SpecIds == InitIds /\ [][NextIds]_vars

\* no value occurs twice in the sequence
NoRepeats(seq) == \A i, j \in DOMAIN seq : i # j => seq[i] # seq[j]

\* the prefix followed by exactly k decimal digits
WellFormed(id, prefix, k) ==
    /\ id.prefix = prefix
    /\ Len(id.digits) = k
    /\ \A i \in DOMAIN id.digits : id.digits[i] \in 0..9

\* C3: within one generator no two calls return the same id, every id returned is
\* in the generator's set, a customer id is CUST and 7 digits, an account id is
\* ACCT and 8 digits
C3_IdsUniqueRecordedWellFormed ==
    /\ NoRepeats(returned_customer_ids)
    /\ NoRepeats(returned_account_ids)
    /\ \A i \in DOMAIN returned_customer_ids :
         /\ returned_customer_ids[i] \in customer_ids
         /\ WellFormed(returned_customer_ids[i], "CUST", 7)
    /\ \A i \in DOMAIN returned_account_ids :
         /\ returned_account_ids[i] \in account_ids
         /\ WellFormed(returned_account_ids[i], "ACCT", 8)

\* every explored value has been given out by both generators, the largest ones
\* first, and a further call of generate_customer_id is in its loop
C3_Witness ==
    /\ Len(returned_customer_ids) = Cardinality(CustomerIdDraws)
    /\ Len(returned_account_ids) = Cardinality(AccountIdDraws)
    /\ returned_customer_ids[1] = FormatId("CUST", 9999999)
    /\ returned_account_ids[1] = FormatId("ACCT", 99999999)
    /\ id_call = "customer"

-----------------------------------------------------------------------------
(* CustomerGenerator.generate_customers *)

\* the customer dict, as far as later stages read it (gender, contact, address,
\* occupation and credit_score are independent draws no later stage reads)
CustomerRow(customer_id, first_name, last_name, dob, annual_income, registration_date, now) ==
    [customer_id       |-> customer_id,
     first_name        |-> first_name,
     last_name         |-> last_name,
     date_of_birth     |-> dob,
     age               |-> Strftime(now).y - dob.y,
     annual_income     |-> annual_income,
     registration_date |-> registration_date]

\* datetime_gen.date(start=1950, end=2005): the ends of the range
BirthDates == {[y |-> 1950, m |-> 1, d |-> 1], [y |-> 2005, m |-> 12, d |-> 31]}

\* round(random.uniform(30000, 250000), 2), in cents: the ends of the range
Incomes == {3000000, 25000000}

\* datetime_gen.date(start=2020, end=2024): the ends of the range
RegistrationDates == {[y |-> 2020, m |-> 1, d |-> 1], [y |-> 2024, m |-> 12, d |-> 31]}

\* one iteration of the loop of generate_customers: generate_single_customer()
CustGenerate(names, dobs, incomes, regs, idDraws) ==
    /\ cust_pc = "loop"
    /\ Len(customers) < num_customers
    /\ \E first_name \in names, dob \in dobs, annual_income \in incomes,
          registration_date \in regs, n \in idDraws :
         LET customer_id == FormatId("CUST", n)
         IN  /\ IsFresh(customer_id, customer_ids)
             /\ customer_ids' = customer_ids \cup {customer_id}
             /\ returned_customer_ids' = Append(returned_customer_ids, customer_id)
             /\ customers' = Append(customers,
                    CustomerRow(customer_id, first_name, "Doe", dob, annual_income,
                                registration_date, today))
    /\ UNCHANGED <<cust_pc, num_customers, account_ids, id_call, returned_account_ids>>
    /\ UNCHANGED <<tableVars, notCustomers>>

\* return pd.DataFrame(customers)
CustReturn ==
    /\ cust_pc = "loop"
    /\ Len(customers) >= num_customers
    /\ cust_pc' = "done"
    /\ customer_data' = DataFrame(customers)
    /\ UNCHANGED <<num_customers, customers>>
    /\ UNCHANGED <<kyc_data, account_data, transaction_data, transfer_data>>
    /\ UNCHANGED <<idVars, notCustomers>>

\* a customer table of n rows as generate_customers builds it: the rows alternate
\* between the two ends of every range
SampleCustomers(n, now) ==
    DataFrame([i \in 1..n |->
        IF i % 2 = 1
        THEN CustomerRow(FormatId("CUST", 1000000 + i - 1), "Alex", "Doe",
                         [y |-> 1950, m |-> 1, d |-> 1], 25000000,
                         [y |-> 2020, m |-> 1, d |-> 1], now)
        ELSE CustomerRow(FormatId("CUST", 9999999 - i), "Sam", "Doe",
                         [y |-> 2005, m |-> 12, d |-> 31], 3000000,
                         [y |-> 2024, m |-> 12, d |-> 31], now)])

-----------------------------------------------------------------------------
(* AccountGenerator.generate_accounts *)

\* a variant without the upper clamp
ClampAccountsFromBelow(n) == Max(n, 1)

\* min(max(num_accounts, 1), 3)
ClampAccounts(n) == Min(Max(n, 1), 3)

\* the outer loop takes the next customer and draws the number of accounts;
\* avg_accounts_per_customer in tenths
AcctBeginCustomer ==
    /\ acct_pc = "rows"
    /\ acct_row < Rows(customer_data)
    /\ avg_accounts_per_customer >= 10
    /\ \E k \in Poisson(avg_accounts_per_customer - 10, MaxPoisson) :
         num_accounts' = ClampAccounts(k + 1)
    /\ acct_row' = acct_row + 1
    /\ acct_j' = 0
    /\ acct_pc' = "loop"
    /\ UNCHANGED <<avg_accounts_per_customer, accounts>>
    /\ UNCHANGED <<tableVars, idVars, notAccounts>>

\* np.random.poisson(lam) raises ValueError for lam < 0
AcctPoissonError ==
    /\ acct_pc = "rows"
    /\ acct_row < Rows(customer_data)
    /\ avg_accounts_per_customer < 10
    /\ acct_pc' = "ValueError"
    /\ UNCHANGED <<avg_accounts_per_customer, acct_row, num_accounts, acct_j, accounts>>
    /\ UNCHANGED <<tableVars, idVars, notAccounts>>

\* one iteration of the inner loop: one account of the current customer
AcctGenerate(types, ends, days, stats, closings, idDraws) ==
    /\ acct_pc = "loop"
    /\ acct_j < num_accounts
    /\ LET customer == RowAt(customer_data, acct_row)
       IN  \E account_type \in types, days_after_registration \in days,
              status \in stats, closing_days \in closings, n \in idDraws :
             \E opening_balance \in UniformCents(MinBalance(account_type),
                                     MaxBalance(account_type, customer.annual_income), ends),
                interest_rate \in InterestRates(account_type) :
               LET account_id == FormatId("ACCT", n)
               IN  /\ IsFresh(account_id, account_ids)
                   /\ account_ids' = account_ids \cup {account_id}
                   /\ returned_account_ids' = Append(returned_account_ids, account_id)
                   /\ accounts' = Append(accounts,
                          AccountRow(customer, account_type, opening_balance,
                                     days_after_registration, interest_rate, status,
                                     closing_days, account_id))
    /\ acct_j' = acct_j + 1
    /\ UNCHANGED <<acct_pc, avg_accounts_per_customer, acct_row, num_accounts>>
    /\ UNCHANGED <<customer_ids, id_call, returned_customer_ids>>
    /\ UNCHANGED <<tableVars, notAccounts>>

\* the inner loop is over
AcctEndCustomer ==
    /\ acct_pc = "loop"
    /\ acct_j >= num_accounts
    /\ acct_pc' = "rows"
    /\ UNCHANGED <<avg_accounts_per_customer, acct_row, num_accounts, acct_j, accounts>>
    /\ UNCHANGED <<tableVars, idVars, notAccounts>>

\* return pd.DataFrame(accounts)
AcctReturn ==
    /\ acct_pc = "rows"
    /\ acct_row = Rows(customer_data)
    /\ acct_pc' = "done"
    /\ account_data' = DataFrame(accounts)
    /\ UNCHANGED <<avg_accounts_per_customer, acct_row, num_accounts, acct_j, accounts>>
    /\ UNCHANGED <<customer_data, kyc_data, transaction_data, transfer_data>>
    /\ UNCHANGED <<idVars, notAccounts>>

\* the next number no account id has used yet
NextAccountNumber == 10000000 + Cardinality(account_ids)

-----------------------------------------------------------------------------
(* generate_accounts on its own: every count of accounts per customer *)

\* the day the runs take place
SampleToday == Strptime([y |-> 2025, m |-> 1, d |-> 15])

\* AccountGenerator(customer_data).generate_accounts(avg) has been called, on a
\* table of 0..MaxCustomers customers, with avg 0.5, 1.0, 1.5 or 3.0
InitAccounts ==
    /\ today = SampleToday
    /\ \E n \in 0..MaxCustomers : customer_data = SampleCustomers(n, SampleToday)
    /\ kyc_data = None
    /\ account_data = None
    /\ transaction_data = None
    /\ transfer_data = None
    /\ IdsIdle /\ CustIdle /\ KycIdle /\ LedgerIdle /\ XferIdle
    /\ pc = "idle"
    /\ SaveIdle /\ RunsIdle /\ AppIdle
    /\ acct_pc = "rows"
    /\ avg_accounts_per_customer \in {5, 10, 15, 30}
    /\ acct_row = 0
    /\ num_accounts = 0
    /\ acct_j = 0
    /\ accounts = <<>>

NextAccounts ==
    \/ AcctBeginCustomer
    \/ AcctPoissonError
    \/ AcctGenerate({"Investment"}, {"lo"}, {0}, {"Active", "Closed"}, {30}, {NextAccountNumber})
    \/ AcctEndCustomer
    \/ AcctReturn

SpecAccounts == InitAccounts /\ [][NextAccounts]_vars

\* the customer_id values of a customer table
CustomerIdsOf(df) == {df.rows[r].customer_id : r \in DOMAIN df.rows}

\* how many of the rows belong to the customer
AccountsOwned(rows, customer_id) ==
    Cardinality({i \in DOMAIN rows : rows[i].customer_id = customer_id})

\* C4: every account made refers to a customer of the input table, and in the
\* table returned every input customer owns at least 1 and at most 3 accounts
C4_AccountsReferToCustomersOneToThree ==
    /\ \A i \in DOMAIN accounts : accounts[i].customer_id \in CustomerIdsOf(customer_data)
    /\ \A c \in CustomerIdsOf(customer_data) : AccountsOwned(accounts, c) <= 3
    /\ acct_pc = "done" =>
         /\ \A i \in DOMAIN account_data.rows :
              account_data.rows[i].customer_id \in CustomerIdsOf(customer_data)
         /\ \A c \in CustomerIdsOf(customer_data) :
              AccountsOwned(account_data.rows, c) \in 1..3

\* a table returned for two customers with avg 3.0: the first owns three accounts,
\* the second one
C4_Witness ==
    /\ acct_pc = "done"
    /\ avg_accounts_per_customer = 30
    /\ Rows(customer_data) = 2
    /\ AccountsOwned(account_data.rows, customer_data.rows[1].customer_id) = 3
    /\ AccountsOwned(account_data.rows, customer_data.rows[2].customer_id) = 1
    /\ Rows(account_data) = 4

-----------------------------------------------------------------------------
(* KYCGenerator.generate_kyc_data *)

verification_statuses == {"Pending", "Verified", "Rejected", "Additional Info Required"}

\* a variant whose age factor is 0.4
RiskSumHeavyAge(customer, noise) ==
    (IF customer.age < 25 \/ customer.age > 70 THEN 400 ELSE 0)
    + (IF customer.annual_income > 20000000 THEN 150 ELSE 0)
    + noise

\* sum(risk_factors) before the clamp, in thousandths: 0.1 for age < 25 or
\* age > 70, 0.15 for annual_income > 200000, and the random element
RiskSum(customer, noise) ==
    (IF customer.age < 25 \/ customer.age > 70 THEN 100 ELSE 0)
    + (IF customer.annual_income > 20000000 THEN 150 ELSE 0)
    + noise

\* risk_score = min(sum(risk_factors), 1.0), in thousandths
RiskScore(customer, noise) == Min(RiskSum(customer, noise), 1000)

\* "Low" if risk_score < 0.3 else "Medium" if risk_score < 0.7 else "High"
RiskCategory(risk_score) ==
    IF risk_score < 300 THEN "Low"
    ELSE IF risk_score < 700 THEN "Medium"
    ELSE "High"

\* the KYC dict (document_type, document_number, issuing_country,
\* verification_method, pep_status, sanctions_match and notes are independent
\* draws and are left out); risk_score is round(risk_score, 2), in hundredths
KycRecord(customer, verification_status, expiry_years, verification_days, noise) ==
    LET issue_date == Strptime(customer.registration_date)
    IN  [customer_id         |-> customer.customer_id,
         issue_date          |-> customer.registration_date,
         expiry_date         |-> Strftime(issue_date + 365 * expiry_years),
         verification_status |-> verification_status,
         verification_date   |-> Strftime(issue_date + verification_days),
         risk_score          |-> RoundHalfEven(RiskScore(customer, noise), 10),
         risk_category       |-> RiskCategory(RiskScore(customer, noise))]

\* one iteration of the loop over customer_data.iterrows()
KycGenerate(stats, years, vdays, noises) ==
    /\ kyc_pc = "rows"
    /\ kyc_row < Rows(customer_data)
    /\ \E verification_status \in stats, expiry_years \in years,
          verification_days \in vdays, noise \in noises :
         kyc_records' = Append(kyc_records,
             KycRecord(RowAt(customer_data, kyc_row + 1), verification_status,
                       expiry_years, verification_days, noise))
    /\ kyc_row' = kyc_row + 1
    /\ UNCHANGED kyc_pc
    /\ UNCHANGED <<tableVars, notKyc>>

\* return pd.DataFrame(kyc_records)
KycReturn ==
    /\ kyc_pc = "rows"
    /\ kyc_row = Rows(customer_data)
    /\ kyc_pc' = "done"
    /\ kyc_data' = DataFrame(kyc_records)
    /\ UNCHANGED <<kyc_row, kyc_records>>
    /\ UNCHANGED <<customer_data, account_data, transaction_data, transfer_data>>
    /\ UNCHANGED notKyc

\* random.uniform(0, 0.5), in thousandths: the ends and values next to the
\* category thresholds
RiskNoises == {0, 46, 296, 454, 500}

\* KYCGenerator(customer_data).generate_kyc_data() has been called, on a table of
\* 0..MaxCustomers customers
InitKyc ==
    /\ today = SampleToday
    /\ \E n \in 0..MaxCustomers : customer_data = SampleCustomers(n, SampleToday)
    /\ kyc_data = None
    /\ account_data = None
    /\ transaction_data = None
    /\ transfer_data = None
    /\ IdsIdle /\ CustIdle /\ AcctIdle /\ LedgerIdle /\ XferIdle
    /\ pc = "idle"
    /\ SaveIdle /\ RunsIdle /\ AppIdle
    /\ kyc_pc = "rows"
    /\ kyc_row = 0
    /\ kyc_records = <<>>

NextKyc ==
    \/ KycGenerate(verification_statuses, {5, 10}, {1, 7}, RiskNoises)
    \/ KycReturn

SpecKyc == InitKyc /\ [][NextKyc]_vars

\* C5: the records made so far are those of the customer rows gone over, one per
\* row and in their order, each with the row's customer_id; the table returned
\* has as many rows as the customer table and the same customer_id values
C5_OneKycRecordPerCustomerInOrder ==
    /\ Len(kyc_records) = kyc_row
    /\ \A i \in DOMAIN kyc_records :
         kyc_records[i].customer_id = customer_data.rows[i].customer_id
    /\ kyc_pc = "done" =>
         /\ Rows(kyc_data) = Rows(customer_data)
         /\ \A i \in DOMAIN kyc_data.rows :
              kyc_data.rows[i].customer_id = customer_data.rows[i].customer_id
         /\ CustomerIdsOf(kyc_data) = CustomerIdsOf(customer_data)

\* a KYC table returned for a table of two customers with different ids
C5_Witness ==
    /\ kyc_pc = "done"
    /\ Rows(customer_data) = 2
    /\ Rows(kyc_data) = 2
    /\ kyc_data.rows[1].customer_id # kyc_data.rows[2].customer_id
    /\ kyc_data.rows[2].customer_id = customer_data.rows[2].customer_id

-----------------------------------------------------------------------------
(* FundTransferGenerator.generate_transfers *)

transfer_types == {"Internal Transfer", "External Transfer", "Wire Transfer", "ACH Transfer"}

transfer_statuses == {"Completed", "Pending", "Failed", "Cancelled"}

\* destination_account_id = None
NoId == [prefix |-> "", digits |-> <<>>]

\* account_data[account_data["status"] == "Active"]
ActiveAccounts(df) == SelectSeq(df.rows, LAMBDA a : a.status = "Active")

\* a variant that keeps every row
OtherThanUnfiltered(rows, account_id) == rows

\* rows[rows["account_id"] != account_id]
OtherThan(rows, account_id) == SelectSeq(rows, LAMBDA a : a.account_id # account_id)

\* rows[rows["customer_id"] == customer_id]
OfCustomer(rows, customer_id) == SelectSeq(rows, LAMBDA a : a.customer_id = customer_id)

DestinationAccountsOfAnyone(active_accounts, source_account, same_customer) ==
    OtherThan(active_accounts, source_account.account_id)

\* the rows dest_account is sampled from; same_customer is random.random() < 0.7
DestinationAccounts(active_accounts, source_account, same_customer) ==
    LET others            == OtherThan(active_accounts, source_account.account_id)
        customer_accounts == OfCustomer(active_accounts, source_account.customer_id)
        dest_accounts     == OtherThan(customer_accounts, source_account.account_id)
    IN  IF same_customer /\ Len(customer_accounts) > 1 /\ Len(dest_accounts) > 0
        THEN dest_accounts
        ELSE others

\* f"{dest_customer['first_name']} {dest_customer['last_name']}" of the first
\* customer row with the destination account's customer_id
HolderOf(dest_account) ==
    LET matches == OfCustomer(customer_data.rows, dest_account.customer_id)
    IN  [first_name |-> matches[1].first_name, last_name |-> matches[1].last_name]

\* fake.name()
ExternalHolder == [first_name |-> "Pat", last_name |-> "Roe"]

\* datetime_gen.date(start=2023, end=2024): the ends of the range
TransferDates == {[y |-> 2023, m |-> 1, d |-> 1], [y |-> 2024, m |-> 12, d |-> 31]}

\* max_amount: min(current_balance * 0.8, 5000), 10 when below 10; in tenths of a cent
TransferMaxAmount(source_account) == MaxAmount(source_account.current_balance, 8, 500000, 1000)

\* round(random.uniform(10, max_amount), 2)
TransferAmounts(source_account, ends) ==
    UniformCents(1000, TransferMaxAmount(source_account), ends)

\* settlement_days = random.randint(a, b) of the transfer type
SettlementDays(transfer_type, ends) ==
    LET range == CASE transfer_type = "Internal Transfer" -> [lo |-> 0, hi |-> 1]
                   [] transfer_type = "ACH Transfer" -> [lo |-> 1, hi |-> 3]
                   [] OTHER -> [lo |-> 0, hi |-> 3]
    IN  {IF e = "lo" THEN range.lo ELSE range.hi : e \in ends}

SettlementDateUnlessFailed(transfer_date, settlement_days, status) ==
    IF status # "Failed"
    THEN Strftime(Strptime(transfer_date) + settlement_days)
    ELSE NoDate

\* settlement_date: the transfer date plus the days when Completed, None otherwise
SettlementDate(transfer_date, settlement_days, status) ==
    IF status = "Completed"
    THEN Strftime(Strptime(transfer_date) + settlement_days)
    ELSE NoDate

\* the transfer dict (transfer_id, account numbers, bank name, currency,
\* reference_number, fee, reason and notes are left out)
TransferRecord(source_account, destination_account_id, destination_account_holder, transfer_type, amount, transfer_date, settlement_days, status) ==
    [source_account_id          |-> source_account.account_id,
     destination_account_id     |-> destination_account_id,
     destination_account_holder |-> destination_account_holder,
     transfer_type              |-> transfer_type,
     amount                     |-> amount,
     transfer_date              |-> transfer_date,
     settlement_date            |-> SettlementDate(transfer_date, settlement_days, status),
     status                     |-> status]

\* account_data["status"] on a table without that column
XferKeyError ==
    /\ xfer_pc = "start"
    /\ "status" \notin account_data.columns
    /\ xfer_pc' = "KeyError"
    /\ UNCHANGED <<same_customer_branch, num_transfers, transfers>>
    /\ UNCHANGED <<tableVars, notTransfers>>

\* raise ValueError("Need at least 2 active accounts to generate transfers")
XferValueError ==
    /\ xfer_pc = "start"
    /\ "status" \in account_data.columns
    /\ Len(ActiveAccounts(account_data)) < 2
    /\ xfer_pc' = "ValueError"
    /\ UNCHANGED <<same_customer_branch, num_transfers, transfers>>
    /\ UNCHANGED <<tableVars, notTransfers>>

\* the precondition holds: the loop starts
XferBegin ==
    /\ xfer_pc = "start"
    /\ "status" \in account_data.columns
    /\ Len(ActiveAccounts(account_data)) >= 2
    /\ xfer_pc' = "loop"
    /\ UNCHANGED <<same_customer_branch, num_transfers, transfers>>
    /\ UNCHANGED <<tableVars, notTransfers>>

\* one iteration of the loop: one transfer
XferGenerate(types, branches, stats, ends, settleEnds, dates) ==
    /\ xfer_pc = "loop"
    /\ Len(transfers) < num_transfers
    /\ LET active_accounts == ActiveAccounts(account_data)
       IN  \E s \in DOMAIN active_accounts, transfer_type \in types, status \in stats,
              transfer_date \in dates :
             LET source_account == active_accounts[s]
             IN  \E amount \in TransferAmounts(source_account, ends),
                    settlement_days \in SettlementDays(transfer_type, settleEnds) :
                   IF transfer_type = "Internal Transfer"
                   THEN \E same_customer \in branches :
                          LET candidates == DestinationAccounts(active_accounts,
                                                source_account, same_customer)
                          IN  \E d \in DOMAIN candidates :
                                /\ transfers' = Append(transfers,
                                       TransferRecord(source_account,
                                           candidates[d].account_id,
                                           HolderOf(candidates[d]), transfer_type, amount,
                                           transfer_date, settlement_days, status))
                                /\ same_customer_branch' = same_customer
                   ELSE /\ transfers' = Append(transfers,
                               TransferRecord(source_account, NoId, ExternalHolder,
                                   transfer_type, amount, transfer_date, settlement_days,
                                   status))
                        /\ same_customer_branch' = FALSE
    /\ UNCHANGED <<xfer_pc, num_transfers>>
    /\ UNCHANGED <<tableVars, notTransfers>>

\* return pd.DataFrame(transfers)
XferReturn ==
    /\ xfer_pc = "loop"
    /\ Len(transfers) >= num_transfers
    /\ xfer_pc' = "done"
    /\ transfer_data' = DataFrame(transfers)
    /\ UNCHANGED <<same_customer_branch, num_transfers, transfers>>
    /\ UNCHANGED <<customer_data, kyc_data, account_data, transaction_data>>
    /\ UNCHANGED notTransfers

-----------------------------------------------------------------------------
(* generate_transfers on its own *)

\* account tables as generate_accounts builds them for the customers of
\* SampleCustomers(2): none at all; one Active account; no Active account; three
\* Active accounts of two customers among five; two Active accounts of two customers
TransferInputs ==
    LET people == SampleCustomers(2, SampleToday)
        alex   == people.rows[1]
        sam    == people.rows[2]
        id(k)  == FormatId("ACCT", 10000000 + k)
    IN  { [customers |-> SampleCustomers(0, SampleToday), rows |-> << >>],
          [customers |-> people,
           rows |-> << AccountRow(alex, "Checking", 10002, 0, 100, "Active", 0, id(1)),
                       AccountRow(alex, "Savings", 50000, 30, 300, "Closed", 30, id(2)) >>],
          [customers |-> people,
           rows |-> << AccountRow(alex, "Checking", 10002, 0, 100, "Dormant", 0, id(1)),
                       AccountRow(sam, "Checking", 10000, 0, 0, "Frozen", 0, id(2)) >>],
          [customers |-> people,
           rows |-> << AccountRow(alex, "Checking", 10002, 0, 100, "Active", 0, id(1)),
                       AccountRow(alex, "Investment", 12500000, 30, RateNone, "Active", 0, id(2)),
                       AccountRow(alex, "Savings", 50000, 30, 300, "Closed", 365, id(3)),
                       AccountRow(sam, "Checking", 10000, 0, 0, "Active", 0, id(4)),
                       AccountRow(sam, "Checking", 300000, 30, 100, "Pending", 0, id(5)) >>],
          [customers |-> people,
           rows |-> << AccountRow(alex, "Checking", 10002, 0, 100, "Active", 0, id(1)),
                       AccountRow(sam, "Checking", 10000, 0, 0, "Active", 0, id(4)) >>] }

\* FundTransferGenerator(account_data, customer_data).generate_transfers(count) has
\* been called, count in 0..MaxTransfers
InitTransfers ==
    /\ today = SampleToday
    /\ \E input \in TransferInputs :
         /\ customer_data = input.customers
         /\ account_data = DataFrame(input.rows)
    /\ kyc_data = None
    /\ transaction_data = None
    /\ transfer_data = None
    /\ IdsIdle /\ CustIdle /\ KycIdle /\ AcctIdle /\ LedgerIdle
    /\ pc = "idle"
    /\ SaveIdle /\ RunsIdle /\ AppIdle
    /\ xfer_pc = "start"
    /\ same_customer_branch = FALSE
    /\ num_transfers \in 0..MaxTransfers
    /\ transfers = <<>>

NextTransfers ==
    \/ XferKeyError
    \/ XferValueError
    \/ XferBegin
    \/ XferGenerate(transfer_types, BOOLEAN, {"Completed", "Pending"}, BothEnds, {"lo"},
                    {[y |-> 2024, m |-> 12, d |-> 31]})
    \/ XferReturn

SpecTransfers == InitTransfers /\ [][NextTransfers]_vars

\* the rows of the table whose status is Active
ActiveRows(df) == {i \in DOMAIN df.rows : df.rows[i].status = "Active"}

\* the account ids of those rows
ActiveIds(df) == {df.rows[i].account_id : i \in ActiveRows(df)}

\* C7: on a table with fewer than 2 Active accounts generate_transfers ends in
\* ValueError, whatever the count asked for, with no transfer record made and no
\* table returned
C7_FewerThanTwoActiveRaisesValueError ==
    (Cardinality(ActiveRows(account_data)) < 2 /\ xfer_pc # "start") =>
        /\ xfer_pc = "ValueError"
        /\ transfers = <<>>
        /\ transfer_data = None

\* C8: the source of every transfer is an Active account of the input table; the
\* destination of every Internal Transfer is an Active account of the input table
\* other than the source
C8_SourceActiveInternalDestinationActiveOther ==
    \A k \in DOMAIN transfers :
        /\ transfers[k].source_account_id \in ActiveIds(account_data)
        /\ transfers[k].transfer_type = "Internal Transfer" =>
             /\ transfers[k].destination_account_id \in ActiveIds(account_data)
             /\ transfers[k].destination_account_id # transfers[k].source_account_id

\* a table returned from an input that also holds Closed and Pending accounts:
\* an Internal Transfer between two accounts of one customer, then one between
\* accounts of two customers
C8_Witness ==
    /\ xfer_pc = "done"
    /\ Rows(account_data) = 5
    /\ Rows(transfer_data) = 2
    /\ transfer_data.rows[1].transfer_type = "Internal Transfer"
    /\ transfer_data.rows[1].source_account_id = FormatId("ACCT", 10000001)
    /\ transfer_data.rows[1].destination_account_id = FormatId("ACCT", 10000002)
    /\ transfer_data.rows[2].transfer_type = "Internal Transfer"
    /\ transfer_data.rows[2].source_account_id = FormatId("ACCT", 10000004)
    /\ transfer_data.rows[2].destination_account_id = FormatId("ACCT", 10000001)

\* the current_balance of the account in the input table, in cents
CurrentBalanceOf(account_id) ==
    LET i == CHOOSE i \in DOMAIN account_data.rows :
                 account_data.rows[i].account_id = account_id
    IN  account_data.rows[i].current_balance

\* C9: every transfer amount is at least 10 and at most
\* max(10, min(0.8 x current_balance, 5000)) of its source account, and exactly 10
\* when 0.8 x current_balance is below 10 (amounts in cents against a cap in
\* tenths of a cent)
C9_AmountWithinCap ==
    \A k \in DOMAIN transfers :
        LET current_balance == CurrentBalanceOf(transfers[k].source_account_id)
        IN  /\ transfers[k].amount >= 1000
            /\ transfers[k].amount * 10 <= Max(10000, Min(8 * current_balance, 5000000))
            /\ (8 * current_balance < 10000) => transfers[k].amount = 1000

-----------------------------------------------------------------------------
(* generate_data / run_headless: the stages in their order *)

\* the next number no customer id has used yet
NextCustomerNumber == 1000000 + Cardinality(customer_ids)

\* d[key] = value on a dict
DictSet(d, key, value) ==
    [k \in DOMAIN d \cup {key} |-> IF k = key THEN value ELSE d[k]]

\* app_state.<name> = table; app_state.generation_stats[key] = len(table)
AppStateAssign(name, key, table) ==
    /\ assigned_in' = [assigned_in EXCEPT ![name] = run]
    /\ generation_stats' = DictSet(generation_stats, key, Rows(table))
    /\ UNCHANGED run

\* the call: generate_customer_data(num_customers) starts on a new CustomerGenerator
Generate(counts, avgs, transferCounts) ==
    /\ pc = "idle"
    /\ \E n \in counts, avg \in avgs, t \in transferCounts :
         /\ num_customers' = n
         /\ avg_accounts_per_customer' = avg
         /\ num_transfers' = t
    /\ cust_pc' = "loop"
    /\ customers' = <<>>
    /\ pc' = "customers"
    /\ UNCHANGED <<acct_pc, acct_row, num_accounts, acct_j, accounts>>
    /\ UNCHANGED <<xfer_pc, same_customer_branch, transfers>>
    /\ run' = run + 1
    /\ UNCHANGED <<assigned_in, generation_stats>>
    /\ UNCHANGED <<envVars, tableVars, idVars, kycVars, ledgerVars, saveVars, runVars>>

\* generate_kyc_data(customer_data)
PipeKyc ==
    /\ pc = "customers"
    /\ cust_pc = "done"
    /\ kyc_pc' = "rows"
    /\ kyc_row' = 0
    /\ kyc_records' = <<>>
    /\ pc' = "kyc"
    /\ UNCHANGED <<envVars, tableVars, idVars, custVars, acctVars, ledgerVars, xferVars>>
    /\ AppStateAssign("customer_data", "customers", customer_data)
    /\ UNCHANGED <<saveVars, runVars>>

\* generate_account_data(customer_data, avg_accounts) on a new AccountGenerator
PipeAccounts ==
    /\ pc = "kyc"
    /\ kyc_pc = "done"
    /\ acct_pc' = "rows"
    /\ acct_row' = 0
    /\ accounts' = <<>>
    /\ account_ids' = {}
    /\ pc' = "accounts"
    /\ UNCHANGED <<avg_accounts_per_customer, num_accounts, acct_j>>
    /\ UNCHANGED <<customer_ids, id_call, returned_customer_ids, returned_account_ids>>
    /\ UNCHANGED <<envVars, tableVars, custVars, kycVars, ledgerVars, xferVars>>
    /\ AppStateAssign("kyc_data", "kyc", kyc_data)
    /\ UNCHANGED <<saveVars, runVars>>

\* generate_transaction_data(account_data, avg_transactions)
PipeTransactions ==
    /\ pc = "accounts"
    /\ acct_pc = "done"
    /\ tx_pc' = "rows"
    /\ tx_row' = 0
    /\ transactions' = <<>>
    /\ max_days_back' = DefaultMaxDaysBack
    /\ pc' = "transactions"
    /\ UNCHANGED <<num_transactions, tx_i, running_balance>>
    /\ UNCHANGED <<envVars, tableVars, idVars, custVars, kycVars, acctVars, xferVars>>
    /\ AppStateAssign("account_data", "accounts", account_data)
    /\ UNCHANGED <<saveVars, runVars>>

\* generate_transfer_data(account_data, customer_data, num_transfers)
PipeTransfers ==
    /\ pc = "transactions"
    /\ tx_pc = "done"
    /\ xfer_pc' = "start"
    /\ transfers' = <<>>
    /\ pc' = "transfers"
    /\ UNCHANGED <<same_customer_branch, num_transfers>>
    /\ UNCHANGED <<envVars, tableVars, idVars, custVars, kycVars, acctVars, ledgerVars>>
    /\ AppStateAssign("transaction_data", "transactions", transaction_data)
    /\ UNCHANGED <<saveVars, runVars>>

\* the files save_data_to_disk writes, in the order of its to_csv / to_json calls
saved_files ==
    <<"customer_data.csv", "kyc_data.csv", "account_data.csv", "transaction_data.csv",
      "transfer_data.csv", "customer_data.json", "kyc_data.json", "account_data.json",
      "transaction_data.json", "transfer_data.json">>

\* the tables and everything the generators hold: save_data_to_disk only reads them
notSave == <<envVars, tableVars, idVars, custVars, kycVars, acctVars, ledgerVars,
             xferVars, runVars, appVars>>

\* save_data_to_disk(customer_data, ..., transfer_data) is called with the five locals
PipeSave ==
    /\ pc = "transfers"
    /\ xfer_pc = "done"
    /\ save_pc' = "writing"
    /\ files_written' = 0
    /\ save_result' = "none"
    /\ pc' = "save"
    /\ AppStateAssign("transfer_data", "transfers", transfer_data)
    /\ UNCHANGED <<envVars, tableVars, idVars, custVars, kycVars, acctVars, ledgerVars,
                   xferVars, runVars>>

\* one to_csv / to_json call of the try block returns
SaveWrite ==
    /\ save_pc = "writing"
    /\ files_written < Len(saved_files)
    /\ files_written' = files_written + 1
    /\ UNCHANGED <<save_pc, save_result, pc>>
    /\ UNCHANGED notSave

SaveFailUncaught ==
    /\ save_pc = "writing"
    /\ files_written < Len(saved_files)
    /\ save_pc' = "raised"
    /\ pc' = "error"
    /\ UNCHANGED <<files_written, save_result>>
    /\ UNCHANGED notSave

\* a to_csv / to_json call raises: except Exception prints and returns False
SaveFail ==
    /\ save_pc = "writing"
    /\ files_written < Len(saved_files)
    /\ save_pc' = "done"
    /\ save_result' = FALSE
    /\ UNCHANGED <<files_written, pc>>
    /\ UNCHANGED notSave

\* all ten calls returned: return True
SaveReturn ==
    /\ save_pc = "writing"
    /\ files_written = Len(saved_files)
    /\ save_pc' = "done"
    /\ save_result' = TRUE
    /\ UNCHANGED <<files_written, pc>>
    /\ UNCHANGED notSave

\* the driver drops what save_data_to_disk returned and completes the run
PipeFinish ==
    /\ pc = "save"
    /\ save_pc = "done"
    /\ pc' = "finished"
    /\ UNCHANGED saveVars
    /\ UNCHANGED notSave

PipeRaiseSwallowed ==
    /\ \/ pc = "accounts" /\ acct_pc = "ValueError"
       \/ pc = "transfers" /\ xfer_pc \in {"KeyError", "ValueError"}
    /\ save_pc' = "writing"
    /\ files_written' = 0
    /\ save_result' = "none"
    /\ pc' = "save"
    /\ UNCHANGED notSave

\* a stage raised: neither driver catches, the run ends in the exception
PipeRaise ==
    /\ \/ pc = "accounts" /\ acct_pc = "ValueError"
       \/ pc = "transfers" /\ xfer_pc \in {"KeyError", "ValueError"}
    /\ pc' = "error"
    /\ UNCHANGED <<envVars, tableVars, idVars, custVars, kycVars, acctVars, ledgerVars,
                   xferVars>>
    /\ UNCHANGED <<saveVars, runVars, appVars>>

\* the module has been imported: AppState() holds no table
Init ==
    /\ today = SampleToday
    /\ NoTables
    /\ IdsIdle /\ CustIdle /\ KycIdle /\ AcctIdle /\ LedgerIdle /\ XferIdle
    /\ pc = "idle"
    /\ SaveIdle /\ RunsIdle /\ AppIdle

Next ==
    \/ Generate(0..MaxCustomers, {5, 10}, {0, 1})
    \/ CustGenerate({"Alex"}, {[y |-> 1950, m |-> 1, d |-> 1]}, {25000000},
                    {[y |-> 2024, m |-> 12, d |-> 31]}, {NextCustomerNumber})
    \/ CustReturn
    \/ PipeKyc
    \/ KycGenerate({"Verified"}, {5}, {1}, {0})
    \/ KycReturn
    \/ PipeAccounts
    \/ AcctBeginCustomer
    \/ AcctPoissonError
    \/ AcctGenerate({"Checking"}, {"lo"}, {0, 30}, {"Active", "Closed"}, {30},
                    {NextAccountNumber})
    \/ AcctEndCustomer
    \/ AcctReturn
    \/ PipeTransactions
    \/ TxSkipClosed
    \/ TxBeginAccount
    \/ TxSkipIteration
    \/ TxGenerate({"Deposit"}, {"Completed"}, {0}, {"lo"})
    \/ TxEndAccount
    \/ TxReturn
    \/ PipeTransfers
    \/ XferKeyError
    \/ XferValueError
    \/ XferBegin
    \/ XferGenerate({"Internal Transfer", "Wire Transfer"}, {FALSE}, {"Completed"},
                    {"lo"}, {"lo"}, {[y |-> 2024, m |-> 12, d |-> 31]})
    \/ XferReturn
    \/ PipeSave
    \/ SaveWrite
    \/ SaveFail
    \/ SaveReturn
    \/ PipeFinish
    \/ PipeRaise

Spec == Init /\ [][Next]_vars

\* C6: a run with a customer count of 0 never ends in an exception, and when it
\* completes the KYC, account, transaction and transfer tables are empty
C6_ZeroCustomersEmptyTablesNoError ==
    (pc # "idle" /\ num_customers = 0) =>
        /\ pc # "error"
        /\ pc = "finished" =>
             /\ Rows(kyc_data) = 0
             /\ Rows(account_data) = 0
             /\ Rows(transaction_data) = 0
             /\ Rows(transfer_data) = 0

-----------------------------------------------------------------------------
(* generate_accounts on its own: every kind of account *)

\* generate_accounts(1.0) has been called on a table of one customer, either of the
\* two of SampleCustomers(2): one account, of every type, status and end of range
InitAccountRows ==
    /\ today = SampleToday
    /\ \E k \in 1..2 :
         customer_data = DataFrame(<< SampleCustomers(2, SampleToday).rows[k] >>)
    /\ kyc_data = None
    /\ account_data = None
    /\ transaction_data = None
    /\ transfer_data = None
    /\ IdsIdle /\ CustIdle /\ KycIdle /\ LedgerIdle /\ XferIdle
    /\ pc = "idle"
    /\ SaveIdle /\ RunsIdle /\ AppIdle
    /\ acct_pc = "rows"
    /\ avg_accounts_per_customer = 10
    /\ acct_row = 0
    /\ num_accounts = 0
    /\ acct_j = 0
    /\ accounts = <<>>

NextAccountRows ==
    \/ AcctBeginCustomer
    \/ AcctGenerate(account_types, BothEnds, {0, 30}, status_options, {30, 365},
                    {NextAccountNumber})
    \/ AcctEndCustomer
    \/ AcctReturn

SpecAccountRows == InitAccountRows /\ [][NextAccountRows]_vars

\* what the claim says of one account
ClosedConsistent(account) ==
    IF account.status = "Closed"
    THEN /\ account.current_balance = 0
         /\ account.closing_date # NoDate
         /\ DateLt(account.opening_date, account.closing_date)
         /\ Strptime(account.closing_date) - Strptime(account.opening_date) \in 30..365
    ELSE /\ account.closing_date = NoDate
         /\ account.current_balance = account.opening_balance

\* C10: a Closed account has current_balance 0 and a closing_date 30 to 365 days
\* after its opening_date; any other account has no closing_date and its
\* current_balance is its opening_balance
C10_ClosedAccountsConsistent ==
    /\ \A i \in DOMAIN accounts : ClosedConsistent(accounts[i])
    /\ acct_pc = "done" =>
         \A i \in DOMAIN account_data.rows : ClosedConsistent(account_data.rows[i])

\* the table returned holds a Closed account opened 30 days after a registration
\* on 2024-12-31 and closed 365 days later
C10_Witness ==
    /\ acct_pc = "done"
    /\ Rows(account_data) = 1
    /\ account_data.rows[1].status = "Closed"
    /\ account_data.rows[1].opening_balance > 0
    /\ account_data.rows[1].current_balance = 0
    /\ account_data.rows[1].opening_date = [y |-> 2025, m |-> 1, d |-> 30]
    /\ account_data.rows[1].closing_date = [y |-> 2026, m |-> 1, d |-> 30]

-----------------------------------------------------------------------------
(* Seeding: random.seed(42) and np.random.seed(42) run once, when the module is
   imported; uuid.uuid4() reads the operating system's entropy and is not seeded.
   A run here is the record loop of generate_transactions reduced to the two
   fields that tell the two sources apart. *)

MaxProcesses == 2

MaxRuns == 2

MaxRunRows == 2

UuidSamples == 2

\* what uuid.uuid4() may return
Uuids == 1..UuidSamples

\* self.transaction_types as the list it is
transaction_type_list == <<"Deposit", "Withdrawal", "Transfer", "Payment", "Fee", "Interest">>

\* random.choices(self.transaction_types, ...) at a position of the seeded stream: the
\* Mersenne Twister's output is a fixed function of the seed and of the draws made
SeededChoice(options, position) == options[((5 * position + 2) % Len(options)) + 1]

\* everything but the runs
notRuns == <<envVars, tableVars, idVars, custVars, kycVars, acctVars, ledgerVars,
             xferVars, pipeVars, saveVars, appVars>>

\* a new process imports the module: random.seed(42); np.random.seed(42)
Import ==
    /\ run_pc = "idle"
    /\ process < MaxProcesses
    /\ process' = process + 1
    /\ rng_state' = 0
    /\ UNCHANGED <<run_pc, run_size, run_rows, finished_runs>>
    /\ UNCHANGED notRuns

\* a generate call with its parameter; nothing re-seeds
RunBegin(sizes) ==
    /\ run_pc = "idle"
    /\ Len(finished_runs) < MaxRuns
    /\ \E n \in sizes : run_size' = n
    /\ run_rows' = <<>>
    /\ run_pc' = "rows"
    /\ UNCHANGED <<process, rng_state, finished_runs>>
    /\ UNCHANGED notRuns

\* one record: the type from the seeded stream, the id from uuid4
RunRow ==
    /\ run_pc = "rows"
    /\ Len(run_rows) < run_size
    /\ \E id \in Uuids :
         run_rows' = Append(run_rows,
                            [transaction_id |-> id,
                             transaction_type |->
                                 SeededChoice(transaction_type_list, rng_state)])
    /\ rng_state' = rng_state + 1
    /\ UNCHANGED <<process, run_pc, run_size, finished_runs>>
    /\ UNCHANGED notRuns

\* the call returns its table
RunReturn ==
    /\ run_pc = "rows"
    /\ Len(run_rows) = run_size
    /\ finished_runs' = Append(finished_runs,
                               [process |-> process, size |-> run_size, rows |-> run_rows])
    /\ run_pc' = "idle"
    /\ UNCHANGED <<process, rng_state, run_size, run_rows>>
    /\ UNCHANGED notRuns

InitRuns ==
    /\ today = SampleToday
    /\ NoTables
    /\ IdsIdle /\ CustIdle /\ KycIdle /\ AcctIdle /\ LedgerIdle /\ XferIdle
    /\ pc = "idle"
    /\ SaveIdle /\ RunsIdle /\ AppIdle

NextRuns ==
    \/ Import
    \/ RunBegin(0..MaxRunRows)
    \/ RunRow
    \/ RunReturn

SpecRuns == InitRuns /\ [][NextRuns]_vars

\* C11: two runs with the same seed and the same parameters produce identical tables,
\* field for field, transaction_id included, also when they are two successive calls
\* in one process
C11_SameSeedSameParametersSameTables ==
    \A i, j \in 1..Len(finished_runs) :
        finished_runs[i].size = finished_runs[j].size =>
            finished_runs[i].rows = finished_runs[j].rows
-----------------------------------------------------------------------------
(* Transactions and the accounts they belong to *)

\* the rows of the input table with this id
AccountsWithId(account_id) ==
    {r \in 1..Rows(account_data) : account_data.rows[r].account_id = account_id}

\* the records generated so far and the table returned
TransactionsSoFar ==
    {transactions[k] : k \in 1..Len(transactions)} \cup
        (IF transaction_data = None THEN {}
         ELSE {transaction_data.rows[k] : k \in 1..Rows(transaction_data)})

\* C12: every transaction's account_id is that of an account of the input table that is
\* not Closed, and of no Closed account
C12_NoTransactionOnClosedAccount ==
    \A t \in TransactionsSoFar :
        /\ AccountsWithId(t.account_id) # {}
        /\ \A r \in AccountsWithId(t.account_id) : account_data.rows[r].status # "Closed"

\* a table with a Closed account has been gone through and records were returned
C12_Witness ==
    /\ tx_pc = "done"
    /\ \E r \in 1..Rows(account_data) : account_data.rows[r].status = "Closed"
    /\ Rows(transaction_data) > 0
-----------------------------------------------------------------------------
(* Saving *)

\* C13: save_data_to_disk never raises: it returns False when one of the ten writes
\* failed and True otherwise, it leaves the five tables as they are, and after a failed
\* save the driver completes the run with the tables it generated
C13_SaveNeverRaisesNorTouchesTables ==
    [][/\ save_pc' = "done" => save_result' = (files_written' = Len(saved_files))
       /\ pc' = "error" => save_pc' = "idle"
       /\ (save_pc # "idle" \/ save_pc' # "idle") =>
              /\ UNCHANGED tableVars
              /\ UNCHANGED <<customers, kyc_records, accounts, transactions, transfers>>
       /\ (pc = "save" /\ save_pc = "done") => pc' = "finished"]_vars

\* a save whose sixth write failed, after a run that produced transfers, and the run
\* completed
C13_Witness ==
    /\ pc = "finished"
    /\ save_result = FALSE
    /\ files_written = 5
    /\ Rows(transfer_data) > 0
    /\ Rows(transaction_data) > 0
-----------------------------------------------------------------------------
(* The order of the stages *)

\* a stage has been entered
Started(stage_pc) == stage_pc # "idle"

\* C14: the stages run in the order Customers, KYC, Accounts, Transactions, Transfers,
\* Save; a stage starts only when the one before it has returned its complete table,
\* save starts only when all five tables exist, and a run whose stage raised saves
\* nothing
C14_StagesInOrder ==
    /\ Started(kyc_pc) =>
           cust_pc = "done" /\ customer_data # None /\ Rows(customer_data) = num_customers
    /\ Started(acct_pc) =>
           kyc_pc = "done" /\ kyc_data # None /\ Rows(kyc_data) = Rows(customer_data)
    /\ Started(tx_pc) =>
           acct_pc = "done" /\ account_data # None /\ Rows(account_data) = Len(accounts)
    /\ Started(xfer_pc) =>
           tx_pc = "done" /\ transaction_data # None
               /\ Rows(transaction_data) = Len(transactions)
    /\ Started(save_pc) =>
           /\ xfer_pc = "done" /\ Rows(transfer_data) = num_transfers
           /\ \A table \in {customer_data, kyc_data, account_data, transaction_data,
                            transfer_data} : table # None
    /\ pc = "error" => save_pc = "idle" /\ files_written = 0

\* a run went through all six stages with rows in every table and wrote its ten files
C14_Witness ==
    /\ pc = "finished"
    /\ save_result = TRUE
    /\ files_written = Len(saved_files)
    /\ \A table \in {customer_data, kyc_data, account_data, transaction_data,
                     transfer_data} : Rows(table) > 0
-----------------------------------------------------------------------------
(* Direction, amount and the movement of the balance *)

\* C15: the direction is Credit for a Deposit or an Interest and Debit for a Withdrawal,
\* a Payment or a Fee, the stored amount is non-negative, and a Completed Credit never
\* lowers the running balance while a Completed Debit never raises it
C15_DirectionAmountAndBalanceAgree ==
    \A k \in DOMAIN transactions :
        LET t == transactions[k]
        IN  /\ t.transaction_type \in {"Deposit", "Interest"} => t.direction = "Credit"
            /\ t.transaction_type \in {"Withdrawal", "Payment", "Fee"} =>
                   t.direction = "Debit"
            /\ t.direction \in {"Credit", "Debit"}
            /\ ~IsNaN(t.amount) /\ t.amount >= 0
            /\ (t.status = "Completed" /\ t.direction = "Credit") =>
                   ~FLt(t.running_balance, BalanceBefore(k))
            /\ (t.status = "Completed" /\ t.direction = "Debit") =>
                   ~FLt(BalanceBefore(k), t.running_balance)
-----------------------------------------------------------------------------
(* Interest *)

\* the interest_rate of the account a record belongs to, as the input table holds it
InterestRateOf(account_id) ==
    LET i == CHOOSE i \in DOMAIN account_data.rows :
                 account_data.rows[i].account_id = account_id
    IN  account_data.rows[i].interest_rate

\* the rate the claim applies: the account's own when set and not zero, 0.0025 otherwise
ClaimedRate(interest_rate) ==
    IF interest_rate \in {RateNone, RateNaN, 0} THEN 25 ELSE interest_rate

\* C16: the amount of an Interest transaction is running_balance x r / 12, to the cent,
\* with r the account's interest_rate when set and 0.0025 when it is null or zero
C16_InterestIsBalanceTimesRateOverTwelve ==
    \A k \in DOMAIN transactions :
        transactions[k].transaction_type = "Interest" =>
            transactions[k].amount =
                Abs(RoundHalfEven(BalanceBefore(k) *
                                      ClaimedRate(InterestRateOf(transactions[k].account_id)),
                                  120000))
-----------------------------------------------------------------------------
(* Amount ranges of Withdrawal, Transfer and Payment *)

\* the claimed range of record k, amounts in cents and caps in tenths of a cent:
\* floor, share of the balance in tenths, upper limit
ClaimedFloor(transaction_type) == IF transaction_type = "Transfer" THEN 5000 ELSE 1000

ClaimedCap(transaction_type, rb) ==
    CASE transaction_type = "Withdrawal" -> Min(5 * rb, 1000000)
      [] transaction_type = "Transfer" -> Min(7 * rb, 3000000)
      [] OTHER -> Min(4 * rb, 2000000)

\* C17: with B the running balance when the transaction is generated, a Withdrawal lies
\* in [10, max(10, min(0.5B, 1000))], a Transfer in [50, max(50, min(0.7B, 3000))], a
\* Payment in [10, max(10, min(0.4B, 2000))], and is exactly the floor when the cap is
\* below the floor
C17_AmountWithinBalanceCap ==
    \A k \in DOMAIN transactions :
        transactions[k].transaction_type \in {"Withdrawal", "Transfer", "Payment"} =>
            LET amount == transactions[k].amount
                floor == ClaimedFloor(transactions[k].transaction_type)
                cap == ClaimedCap(transactions[k].transaction_type, BalanceBefore(k))
            IN  /\ amount >= floor
                /\ amount * 10 <= Max(floor * 10, cap)
                /\ cap < floor * 10 => amount = floor
-----------------------------------------------------------------------------
(* The date window: generate_transactions(max_days_back) for several values of
   max_days_back, on accounts opened long ago, lately, today and in the future *)

\* values of the max_days_back parameter
MaxDaysBackSamples == {-1, 0, 1, 30, DefaultMaxDaysBack, 400}

\* the tables of LedgerInputs and one with an account opened on the day of the run
WindowInputs ==
    LET late  == LedgerOwner([y |-> 2024, m |-> 12, d |-> 31])
        early == LedgerOwner([y |-> 2020, m |-> 1, d |-> 1])
        id(k) == FormatId("ACCT", 10000000 + k)
    IN  LedgerInputs \cup
        { [today |-> Strptime([y |-> 2025, m |-> 1, d |-> 15]),
           rows  |-> << AccountRow(late, "Checking", 30000, 0, 50, "Active", 0, id(1)),
                        AccountRow(late, "Checking", 10000, 15, 100, "Active", 0, id(2)),
                        AccountRow(early, "Checking", 20000, 30, 50, "Active", 0, id(3)) >>] }

InitWindow ==
    /\ \E input \in WindowInputs :
         /\ today = input.today
         /\ account_data = DataFrame(input.rows)
    /\ customer_data = None
    /\ kyc_data = None
    /\ transaction_data = None
    /\ transfer_data = None
    /\ IdsIdle /\ CustIdle /\ KycIdle /\ AcctIdle /\ XferIdle
    /\ pc = "idle"
    /\ SaveIdle /\ RunsIdle /\ AppIdle
    /\ max_days_back \in MaxDaysBackSamples
    /\ tx_pc = "rows"
    /\ tx_row = 0
    /\ num_transactions = 0
    /\ tx_i = 0
    /\ running_balance = 0
    /\ transactions = <<>>

NextWindow ==
    \/ TxSkipClosed
    \/ TxBeginAccount
    \/ TxSkipIteration
    \/ TxGenerate({"Deposit"}, {"Completed"}, {0, 1}, {"lo"})
    \/ TxEndAccount
    \/ TxReturn

SpecWindow == InitWindow /\ [][NextWindow]_vars

\* the opening date of the account a record belongs to, as a day number
OpeningDayOf(account_id) ==
    LET i == CHOOSE i \in DOMAIN account_data.rows :
                 account_data.rows[i].account_id = account_id
    IN  Strptime(account_data.rows[i].opening_date)

\* C18: the date d of every transaction satisfies
\* max(opening_date of its account, today - max_days_back days) <= d <= today
C18_DateWithinWindow ==
    \A t \in TransactionsSoFar :
        LET d == Strptime(t.transaction_date)
        IN  /\ Max(OpeningDayOf(t.account_id), today - max_days_back) <= d
            /\ d <= today

\* transactions dated at the start of a window bounded by the opening date, and of one
\* bounded by max_days_back
C18_Witness ==
    \E j, k \in DOMAIN transactions :
        /\ Strptime(transactions[j].transaction_date) = OpeningDayOf(transactions[j].account_id)
        /\ Strptime(transactions[j].transaction_date) > today - max_days_back
        /\ Strptime(transactions[k].transaction_date) = today - max_days_back
        /\ Strptime(transactions[k].transaction_date) > OpeningDayOf(transactions[k].account_id)
        /\ max_days_back > 0
-----------------------------------------------------------------------------
(* Accounts without a date window *)

\* the account was opened on the day of the run or after it, or max_days_back <= 0
NoValidWindow(account) ==
    Strptime(account.opening_date) >= today \/ max_days_back <= 0

\* the records generated so far for an account
RecordsOf(account_id) ==
    {k \in DOMAIN transactions : transactions[k].account_id = account_id}

\* C19: an iteration of an account without a valid date window produces no record and
\* leaves the running balance as it was, and the loop goes on; an account with a window
\* gets one record per iteration: at the end of its loop an account has no record or as
\* many as its sampled count
C19_NoWindowSkipsEveryIteration ==
    /\ tx_pc \in {"rows", "loop", "done"}
    /\ tx_pc = "loop" =>
           /\ Cardinality(RecordsOf(CurrentAccount.account_id)) =
                  IF NoValidWindow(CurrentAccount) THEN 0 ELSE tx_i
           /\ NoValidWindow(CurrentAccount) =>
                  running_balance = CurrentAccount.opening_balance
           /\ tx_i <= num_transactions
    /\ \A r \in 1..tx_row :
           (tx_pc # "loop" \/ r < tx_row) =>
               \/ RecordsOf(account_data.rows[r].account_id) = {}
               \/ ~NoValidWindow(account_data.rows[r])

\* after an account that received a record, both iterations of an account opened on
\* the day of the run were skipped, and a third account is still to come
C19_Witness ==
    /\ tx_pc = "loop"
    /\ tx_row = 2
    /\ Rows(account_data) = 3
    /\ NoValidWindow(CurrentAccount)
    /\ max_days_back > 0
    /\ num_transactions = 2
    /\ tx_i = num_transactions
    /\ RecordsOf(CurrentAccount.account_id) = {}
    /\ Len(transactions) = 1

-----------------------------------------------------------------------------
(* The destination of an Internal Transfer *)

\* the customer_id of the account with this id in the input table
CustomerIdOf(account_id) ==
    LET i == CHOOSE i \in DOMAIN account_data.rows :
                 account_data.rows[i].account_id = account_id
    IN  account_data.rows[i].customer_id

\* the ids of the Active accounts a customer owns
ActiveIdsOwnedBy(customer_id) ==
    {id \in ActiveIds(account_data) : CustomerIdOf(id) = customer_id}

\* the names of the customers with this id
NamesOf(customer_id) ==
    {[first_name |-> customer_data.rows[i].first_name,
      last_name |-> customer_data.rows[i].last_name] :
        i \in {h \in DOMAIN customer_data.rows :
                   customer_data.rows[h].customer_id = customer_id}}

-----------------------------------------------------------------------------
(* Settlement: generate_transfers with every type and status, both ends of the
   settlement range, and transfer dates before a leap day and at the end of 2024 *)

\* transfer dates that datetime_gen.date(start=2023, end=2024) can give
SettlementTransferDates ==
    {[y |-> 2024, m |-> 2, d |-> 28], [y |-> 2024, m |-> 12, d |-> 31]}

\* the tables of TransferInputs with at most two Active accounts
SettlementInputs ==
    {input \in TransferInputs : Len(ActiveAccounts(DataFrame(input.rows))) <= 2}

InitSettlement ==
    /\ today = SampleToday
    /\ \E input \in SettlementInputs :
         /\ customer_data = input.customers
         /\ account_data = DataFrame(input.rows)
    /\ kyc_data = None
    /\ transaction_data = None
    /\ transfer_data = None
    /\ IdsIdle /\ CustIdle /\ KycIdle /\ AcctIdle /\ LedgerIdle
    /\ pc = "idle"
    /\ SaveIdle /\ RunsIdle /\ AppIdle
    /\ xfer_pc = "start"
    /\ same_customer_branch = FALSE
    /\ num_transfers \in 0..MaxTransfers
    /\ transfers = <<>>

NextSettlement ==
    \/ XferKeyError
    \/ XferValueError
    \/ XferBegin
    \/ XferGenerate(transfer_types, {FALSE}, transfer_statuses, {"lo"}, BothEnds,
                    SettlementTransferDates)
    \/ XferReturn

SpecSettlement == InitSettlement /\ [][NextSettlement]_vars

\* the days from the transfer date of a record to its settlement date
SettlementOffset(t) == Strptime(t.settlement_date) - Strptime(t.transfer_date)

-----------------------------------------------------------------------------
(* The stored risk score and the stored risk category *)

\* C22: the stored risk_category agrees with the stored risk_score: Low exactly when
\* risk_score < 0.3, Medium exactly when 0.3 <= risk_score < 0.7, High exactly when
\* risk_score >= 0.7
C22_StoredCategoryAgreesWithStoredScore ==
    \A k \in DOMAIN kyc_records :
        LET r == kyc_records[k]
        IN  /\ (r.risk_category = "Low") <=> (r.risk_score < 30)
            /\ (r.risk_category = "Medium") <=> (30 <= r.risk_score /\ r.risk_score < 70)
            /\ (r.risk_category = "High") <=> (r.risk_score >= 70)
-----------------------------------------------------------------------------
(* Termination of the id loops.  random.randint draws every value of its range with
   positive probability at every pass, independently of the passes before, so a pass
   that draws an unused id, possible at every pass while one exists, eventually
   happens: weak fairness of the returning pass. *)

\* the pass of generate_customer_id that draws an unused id and returns it
CustomerIdReturns == CustomerIdIteration /\ id_call' = "none"

\* the pass of generate_account_id that draws an unused id and returns it
AccountIdReturns == AccountIdIteration /\ id_call' = "none"

SpecIdsFair ==
    InitIds /\ [][NextIds]_vars /\ WF_vars(CustomerIdReturns) /\ WF_vars(AccountIdReturns)

\* the ids of the two namespaces
CustomerNamespace == {FormatId("CUST", n) : n \in CustomerIdDraws}

AccountNamespace == {FormatId("ACCT", n) : n \in AccountIdDraws}

\* C23: under fair sampling a call of generate_customer_id / generate_account_id
\* eventually returns while an id of its namespace is unused; once all of them have been
\* given out a further call never returns
C23_IdCallReturnsUnlessExhausted ==
    /\ (id_call = "customer" /\ customer_ids # CustomerNamespace) ~> (id_call = "none")
    /\ (id_call = "account" /\ account_ids # AccountNamespace) ~> (id_call = "none")
    /\ []((id_call = "customer" /\ customer_ids = CustomerNamespace) =>
              [](id_call = "customer" /\ customer_ids = CustomerNamespace))
    /\ []((id_call = "account" /\ account_ids = AccountNamespace) =>
              [](id_call = "account" /\ account_ids = AccountNamespace))

\* the account generator has given out every id of its namespace and a further call of
\* generate_account_id is in its loop, after the customer generator, with one id left,
\* returned from its last call
C23_Witness ==
    /\ id_call = "account"
    /\ account_ids = AccountNamespace
    /\ Len(returned_account_ids) = IdSamples
    /\ Len(returned_customer_ids) = IdSamples - 1
    /\ Cardinality(CustomerNamespace \ customer_ids) = 1
-----------------------------------------------------------------------------
(* What the transaction and transfer stages leave alone *)

\* every account that is not Closed holds its opening balance as current_balance
BalancesAsOpened ==
    \A r \in 1..Rows(account_data) :
        account_data.rows[r].status # "Closed" =>
            account_data.rows[r].current_balance = account_data.rows[r].opening_balance

\* C24: generate_transactions and generate_transfers leave the customer and account
\* tables unchanged; from the transaction stage to the end of the pipeline every account
\* that is not Closed has current_balance equal to opening_balance
C24_LaterStagesLeaveAccountsAlone ==
    [][/\ (Started(tx_pc) \/ Started(xfer_pc)) =>
              UNCHANGED <<customer_data, account_data>>
       /\ (Started(tx_pc) \/ Started(xfer_pc))' => BalancesAsOpened']_vars

\* the pipeline is over; an Active account received a Completed Deposit, which its
\* record stores in running_balance, and was the source of a transfer
C24_Witness ==
    /\ pc = "finished"
    /\ \E r \in 1..Rows(account_data), k \in 1..Rows(transaction_data),
          x \in 1..Rows(transfer_data) :
         /\ account_data.rows[r].status = "Active"
         /\ transaction_data.rows[k].account_id = account_data.rows[r].account_id
         /\ transaction_data.rows[k].status = "Completed"
         /\ transaction_data.rows[k].running_balance > account_data.rows[r].opening_balance
         /\ transfer_data.rows[x].source_account_id = account_data.rows[r].account_id
-----------------------------------------------------------------------------
(* The sign of the running balance *)

\* C25: starting from a positive opening balance, the accumulator and every stored
\* running_balance are >= 0 after any sequence of transactions
C25_RunningBalanceNeverNegative ==
    /\ tx_pc = "loop" => (~IsNaN(running_balance) /\ running_balance >= 0)
    /\ \A k \in DOMAIN transactions :
           (OpeningBalanceOf(transactions[k].account_id) > 0) =>
               /\ ~IsNaN(transactions[k].running_balance)
               /\ transactions[k].running_balance >= 0
-----------------------------------------------------------------------------
(* app_state between generate_data calls *)

\* no generate_data call is in progress
AtRest == pc \in {"idle", "finished", "error"}

\* C27: whenever app_state.customer_data is not None, kyc_data, account_data,
\* transaction_data and transfer_data are not None either (taken in the states in which
\* no generate_data call is in progress, where update_visualizations, get_csv_download
\* and get_json_download test customer_data)
C27_CustomersImplyAllTables ==
    (AtRest /\ customer_data # None) =>
        /\ kyc_data # None
        /\ account_data # None
        /\ transaction_data # None
        /\ transfer_data # None
-----------------------------------------------------------------------------
(* Several generate_data calls on one app_state *)

MaxGenerateCalls == 2

\* a further generate_data call, after one that returned or raised: its locals and its
\* generators are new, app_state is the one the earlier calls left
GenerateAgain(counts, avgs, transferCounts) ==
    /\ pc \in {"finished", "error"}
    /\ run < MaxGenerateCalls
    /\ \E n \in counts, avg \in avgs, t \in transferCounts :
         /\ num_customers' = n
         /\ avg_accounts_per_customer' = avg
         /\ num_transfers' = t
    /\ cust_pc' = "loop"
    /\ customers' = <<>>
    /\ pc' = "customers"
    /\ run' = run + 1
    /\ customer_ids' = {}
    /\ account_ids' = {}
    /\ id_call' = "none"
    /\ returned_customer_ids' = <<>>
    /\ returned_account_ids' = <<>>
    /\ kyc_pc' = "idle"
    /\ kyc_row' = 0
    /\ kyc_records' = <<>>
    /\ acct_pc' = "idle"
    /\ acct_row' = 0
    /\ num_accounts' = 0
    /\ acct_j' = 0
    /\ accounts' = <<>>
    /\ tx_pc' = "idle"
    /\ max_days_back' = DefaultMaxDaysBack
    /\ tx_row' = 0
    /\ num_transactions' = 0
    /\ tx_i' = 0
    /\ running_balance' = 0
    /\ transactions' = <<>>
    /\ xfer_pc' = "idle"
    /\ same_customer_branch' = FALSE
    /\ transfers' = <<>>
    /\ save_pc' = "idle"
    /\ files_written' = 0
    /\ save_result' = "none"
    /\ UNCHANGED <<assigned_in, generation_stats>>
    /\ UNCHANGED <<envVars, tableVars, runVars>>

NextApp ==
    \/ Generate(0..MaxCustomers, {5, 10}, {0, 1})
    \/ GenerateAgain(0..MaxCustomers, {5, 10}, {0, 1})
    \/ CustGenerate({"Alex"}, {[y |-> 1950, m |-> 1, d |-> 1]}, {25000000},
                    {[y |-> 2024, m |-> 12, d |-> 31]}, {NextCustomerNumber})
    \/ CustReturn
    \/ PipeKyc
    \/ KycGenerate({"Verified"}, {5}, {1}, {0})
    \/ KycReturn
    \/ PipeAccounts
    \/ AcctBeginCustomer
    \/ AcctPoissonError
    \/ AcctGenerate({"Checking"}, {"lo"}, {0, 30}, {"Active", "Closed"}, {30},
                    {NextAccountNumber})
    \/ AcctEndCustomer
    \/ AcctReturn
    \/ PipeTransactions
    \/ TxSkipClosed
    \/ TxBeginAccount
    \/ TxSkipIteration
    \/ TxGenerate({"Deposit"}, {"Completed"}, {0}, {"lo"})
    \/ TxEndAccount
    \/ TxReturn
    \/ PipeTransfers
    \/ XferKeyError
    \/ XferValueError
    \/ XferBegin
    \/ XferGenerate({"Wire Transfer"}, {FALSE}, {"Completed"}, {"lo"}, {"lo"},
                    {[y |-> 2024, m |-> 12, d |-> 31]})
    \/ XferReturn
    \/ PipeSave
    \/ SaveWrite
    \/ SaveFail
    \/ SaveReturn
    \/ PipeFinish
    \/ PipeRaise

SpecApp == Init /\ [][NextApp]_vars

\* C26: after any sequence of generate_data calls, returned or raised, the tables and
\* row counts held in app_state all come from one and the same call
C26_AppStateFromOneRun ==
    AtRest =>
        /\ \A a, b \in table_names :
               (assigned_in[a] # 0 /\ assigned_in[b] # 0) => assigned_in[a] = assigned_in[b]
        /\ \A key \in DOMAIN generation_stats :
               LET name == CASE key = "customers" -> "customer_data"
                             [] key = "kyc" -> "kyc_data"
                             [] key = "accounts" -> "account_data"
                             [] key = "transactions" -> "transaction_data"
                             [] OTHER -> "transfer_data"
               IN  assigned_in[name] = run
-----------------------------------------------------------------------------
(* The risk factors of a customer and the risk category they allow *)

\* dates of birth of datetime_gen.date(start=1950, end=2005) that give, on the day of
\* the run, the ages 75, 70 and 20: above, on and below the limits of the age factor
RiskBirthDates ==
    {[y |-> 1950, m |-> 1, d |-> 1], [y |-> 1955, m |-> 1, d |-> 1],
     [y |-> 2005, m |-> 12, d |-> 31]}

\* annual incomes of random.uniform(30000, 250000), in cents: on the limit of the
\* income factor and above it
RiskIncomes == {20000000, 25000000}

\* the customer tables of 0..MaxCustomers rows over these dates of birth and incomes
RiskCustomerTables ==
    UNION {
        {DataFrame([i \in 1..n |->
             CustomerRow(FormatId("CUST", 1000000 + i - 1), "Alex", "Doe",
                         dobs[i], incomes[i], [y |-> 2020, m |-> 1, d |-> 1],
                         SampleToday)]) :
            dobs \in [1..n -> RiskBirthDates], incomes \in [1..n -> RiskIncomes]} :
        n \in 0..MaxCustomers}

\* KYCGenerator(customer_data).generate_kyc_data() has been called on one of them
InitRisk ==
    /\ today = SampleToday
    /\ customer_data \in RiskCustomerTables
    /\ kyc_data = None
    /\ account_data = None
    /\ transaction_data = None
    /\ transfer_data = None
    /\ IdsIdle /\ CustIdle /\ AcctIdle /\ LedgerIdle /\ XferIdle
    /\ pc = "idle"
    /\ SaveIdle /\ RunsIdle /\ AppIdle
    /\ kyc_pc = "rows"
    /\ kyc_row = 0
    /\ kyc_records = <<>>

NextRisk ==
    \/ KycGenerate({"Verified"}, {5}, {1}, RiskNoises)
    \/ KycReturn

SpecRisk == InitRisk /\ [][NextRisk]_vars

\* C28: for every customer and every draw of the random element the sum of the risk
\* factors is at most 0.75, so the clamp to 1.0 leaves it as it is; a record is High
\* only if its customer has both the age factor and the income factor, and the record
\* of a customer with neither has a score of at most 0.5 and is not High
C28_HighOnlyWithBothFactors ==
    /\ \A i \in 1..Rows(customer_data) : \A noise \in RiskNoises :
           LET customer == RowAt(customer_data, i)
           IN  /\ RiskSum(customer, noise) <= 750
               /\ RiskScore(customer, noise) = RiskSum(customer, noise)
    /\ \A k \in DOMAIN kyc_records :
           LET customer == RowAt(customer_data, k)
               by_age == customer.age < 25 \/ customer.age > 70
               by_income == customer.annual_income > 20000000
           IN  /\ kyc_records[k].risk_score <= 75
               /\ kyc_records[k].risk_category = "High" => (by_age /\ by_income)
               /\ (~by_age /\ ~by_income) =>
                      /\ kyc_records[k].risk_score <= 50
                      /\ kyc_records[k].risk_category # "High"

\* a High record of a customer of 75 with an income of 250000, followed by the record
\* of a customer of 70 with an income of 200000 whose random element is 0.5
C28_Witness ==
    /\ Len(kyc_records) = 2
    /\ RowAt(customer_data, 1).age = 75
    /\ RowAt(customer_data, 1).annual_income = 25000000
    /\ kyc_records[1].risk_category = "High"
    /\ kyc_records[1].risk_score = 75
    /\ RowAt(customer_data, 2).age = 70
    /\ RowAt(customer_data, 2).annual_income = 20000000
    /\ kyc_records[2].risk_score = 50
    /\ kyc_records[2].risk_category = "Medium"
=============================================================================
